---- MODULE Spec2Model ----
(***************************************************************************)
(* A model of the Python MCAP library (python/mcap/mcap): the byte codec   *)
(* (data_stream.py), the record codec (records.py), the chunk builder      *)
(* (_chunk_builder.py), the Writer (writer.py), the StreamReader           *)
(* (stream_reader.py), the merge queue (_message_queue.py) and the two     *)
(* readers (reader.py).  Files are sequences of bytes (naturals below      *)
(* 256); every offset and length is a byte count, as in the code.          *)
(***************************************************************************)
EXTENDS Integers, Sequences, FiniteSets, TLC

(***************************************************************************)
(* Bounds of the model.                                                    *)
(***************************************************************************)
\* the log_time values add_message draws from are 0..MaxTime
MaxTime == 2
\* the largest number of add_message calls in one writer run
MaxMessages == 3
\* the largest number of register_channel calls in one writer run
MaxChannels == 2
\* the largest number of register_schema calls in one writer run
MaxSchemas == 1
\* the largest number of add_attachment calls in one writer run
MaxAttachments == 1
\* the largest number of add_metadata calls in one writer run
MaxMetadata == 1
\* the largest number of calls between start and finish in one writer run
MaxCalls == 5

(***************************************************************************)
(* Opcodes (opcode.py).                                                    *)
(***************************************************************************)
HEADER == 1
FOOTER == 2
SCHEMA == 3
CHANNEL == 4
MESSAGE == 5
CHUNK == 6
MESSAGE_INDEX == 7
CHUNK_INDEX == 8
ATTACHMENT == 9
ATTACHMENT_INDEX == 10
STATISTICS == 11
METADATA == 12
METADATA_INDEX == 13
SUMMARY_OFFSET == 14
DATA_END == 15

\* struct.pack("<8B", 137, 77, 67, 65, 80, 48, 13, 10)
MCAP0_MAGIC == <<137, 77, 67, 65, 80, 48, 13, 10>>
MAGIC_SIZE == 8

(***************************************************************************)
(* Generic helpers on sequences and on insertion-ordered dicts, which are  *)
(* sequences of <<key, value>> pairs in insertion order, as Python dicts.  *)
(***************************************************************************)
Min(a, b) == IF a < b THEN a ELSE b
Max(a, b) == IF a > b THEN a ELSE b

RECURSIVE Concat(_)
Concat(ss) == IF ss = <<>> THEN <<>> ELSE Head(ss) \o Concat(Tail(ss))

DictHas(d, k) == \E i \in 1..Len(d) : d[i][1] = k
DictGet(d, k) == d[CHOOSE i \in 1..Len(d) : d[i][1] = k][2]
DictKeys(d) == [i \in 1..Len(d) |-> d[i][1]]
DictSet(d, k, v) ==
    IF DictHas(d, k)
    THEN [i \in 1..Len(d) |-> IF d[i][1] = k THEN <<k, v>> ELSE d[i]]
    ELSE Append(d, <<k, v>>)

(***************************************************************************)
(* data_stream.py, RecordBuilder: little-endian integers, length-prefixed  *)
(* strings and the opcode | u64 length | payload frame.                    *)
(***************************************************************************)
\* struct.pack of an unsigned little-endian integer of n bytes
RECURSIVE LE(_, _)
LE(v, n) == IF n = 0 THEN <<>> ELSE <<v % 256>> \o LE(v \div 256, n - 1)

write1(v) == LE(v, 1)
write2(v) == LE(v, 2)
write4(v) == LE(v, 4)
write8(v) == LE(v, 8)
\* strings are held as their UTF-8 bytes
write_prefixed_string(s) == write4(Len(s)) \o s

\* start_record writes the opcode and a placeholder length, finish_record
\* patches the length to the number of payload bytes written in between
Record(opcode, payload) == write1(opcode) \o write8(Len(payload)) \o payload

\* zlib.crc32(data, value): a running checksum over bytes, continued from
\* value.  The library's polynomial is replaced by a byte sum with the same
\* running interface: crc32(a + b, v) = crc32(b, crc32(a, v)) and
\* crc32(b"", v) = v.  Values stay below 65521, so they fit the 4-byte crc
\* fields.
RECURSIVE ByteSum(_, _, _)
ByteSum(data, lo, hi) ==
    IF lo > hi THEN 0
    ELSE IF lo = hi THEN data[lo] + 1
    ELSE ByteSum(data, lo, (lo + hi) \div 2) + ByteSum(data, (lo + hi) \div 2 + 1, hi)
crc32(data, value) == (value + ByteSum(data, 1, Len(data))) % 65521

\* the str -> str map of Channel.write and Metadata.write
MetaLength(m) ==
    LET RECURSIVE Sum(_)
        Sum(i) == IF i = 0 THEN 0
                  ELSE Sum(i - 1) + 8 + Len(m[i][1]) + Len(m[i][2])
    IN Sum(Len(m))
MetaBytes(m) ==
    Concat([i \in 1..Len(m) |->
              write_prefixed_string(m[i][1]) \o write_prefixed_string(m[i][2])])

(***************************************************************************)
(* records.py: the write method of every record type.                      *)
(***************************************************************************)
Header_write(r) ==
    Record(HEADER, write_prefixed_string(r.profile) \o write_prefixed_string(r.library))

Footer_write(r) ==
    Record(FOOTER, write8(r.summary_start) \o write8(r.summary_offset_start)
                   \o write4(r.summary_crc))

Schema_write(r) ==
    Record(SCHEMA, write2(r.id) \o write_prefixed_string(r.name)
                   \o write_prefixed_string(r.encoding)
                   \o write4(Len(r.data)) \o r.data)

Channel_write(r) ==
    Record(CHANNEL, write2(r.id) \o write2(r.schema_id)
                    \o write_prefixed_string(r.topic)
                    \o write_prefixed_string(r.message_encoding)
                    \o write4(MetaLength(r.metadata)) \o MetaBytes(r.metadata))

Message_write(r) ==
    Record(MESSAGE, write2(r.channel_id) \o write4(r.sequence)
                    \o write8(r.log_time) \o write8(r.publish_time) \o r.data)

Chunk_write(r) ==
    Record(CHUNK, write8(r.message_start_time) \o write8(r.message_end_time)
                  \o write8(r.uncompressed_size) \o write4(r.uncompressed_crc)
                  \o write_prefixed_string(r.compression)
                  \o write8(Len(r.data)) \o r.data)

MessageIndex_write(r) ==
    Record(MESSAGE_INDEX,
           write2(r.channel_id) \o write4(Len(r.records) * 16)
           \o Concat([i \in 1..Len(r.records) |->
                        write8(r.records[i][1]) \o write8(r.records[i][2])]))

ChunkIndex_write(r) ==
    Record(CHUNK_INDEX,
           write8(r.message_start_time) \o write8(r.message_end_time)
           \o write8(r.chunk_start_offset) \o write8(r.chunk_length)
           \o write4(Len(r.message_index_offsets) * 10)
           \o Concat([i \in 1..Len(r.message_index_offsets) |->
                        write2(r.message_index_offsets[i][1])
                        \o write8(r.message_index_offsets[i][2])])
           \o write8(r.message_index_length)
           \o write_prefixed_string(r.compression)
           \o write8(r.compressed_size) \o write8(r.uncompressed_size))

\* the record is built with a zero crc, then written without its last four
\* bytes, followed by the crc32 of everything after the 9-byte frame head
Attachment_write(r) ==
    LET data == Record(ATTACHMENT,
                       write8(r.log_time) \o write8(r.create_time)
                       \o write_prefixed_string(r.name)
                       \o write_prefixed_string(r.media_type)
                       \o write8(Len(r.data)) \o r.data \o write4(0))
    IN SubSeq(data, 1, Len(data) - 4)
       \o write4(crc32(SubSeq(data, 10, Len(data) - 4), 0))

AttachmentIndex_write(r) ==
    Record(ATTACHMENT_INDEX,
           write8(r.offset) \o write8(r.length) \o write8(r.log_time)
           \o write8(r.create_time) \o write8(r.data_size)
           \o write_prefixed_string(r.name) \o write_prefixed_string(r.media_type))

Statistics_write(r) ==
    Record(STATISTICS,
           write8(r.message_count) \o write2(r.schema_count)
           \o write4(r.channel_count) \o write4(r.attachment_count)
           \o write4(r.metadata_count) \o write4(r.chunk_count)
           \o write8(r.message_start_time) \o write8(r.message_end_time)
           \o write4(Len(r.channel_message_counts) * 10)
           \o Concat([i \in 1..Len(r.channel_message_counts) |->
                        write2(r.channel_message_counts[i][1])
                        \o write8(r.channel_message_counts[i][2])]))

Metadata_write(r) ==
    Record(METADATA, write_prefixed_string(r.name)
                     \o write4(MetaLength(r.metadata)) \o MetaBytes(r.metadata))

MetadataIndex_write(r) ==
    Record(METADATA_INDEX, write8(r.offset) \o write8(r.length)
                           \o write_prefixed_string(r.name))

SummaryOffset_write(r) ==
    Record(SUMMARY_OFFSET, write1(r.group_opcode) \o write8(r.group_start)
                           \o write8(r.group_length))

DataEnd_write(r) == Record(DATA_END, write4(r.data_section_crc))


(***************************************************************************)
(* data_stream.py, ReadDataStream.  A read is made on the bytes b at the   *)
(* offset p and gives the value v read, the offset p after it and err,     *)
(* the exception raised ("" when none).                                    *)
(***************************************************************************)
RECURSIVE FromLE(_)
FromLE(bytes) == IF bytes = <<>> THEN 0 ELSE Head(bytes) + 256 * FromLE(Tail(bytes))

\* ReadDataStream.read: read(0) gives b"" without touching the stream; the
\* stream gives at most the bytes it has (all of them for a negative length,
\* as io.BytesIO does); an empty result raises EndOfFile
read(b, p, length) ==
    IF length = 0 THEN [v |-> <<>>, p |-> p, err |-> ""]
    ELSE LET avail == IF length < 0 THEN Len(b) - p ELSE Min(length, Len(b) - p)
         IN IF avail <= 0 THEN [v |-> <<>>, p |-> p, err |-> "EndOfFile"]
            ELSE [v |-> SubSeq(b, p + 1, p + avail), p |-> p + avail, err |-> ""]

\* struct.unpack of the n bytes just read: it fails on a short buffer
unpack(r, n) ==
    IF r.err # "" THEN [v |-> 0, p |-> r.p, err |-> r.err]
    ELSE IF Len(r.v) < n THEN [v |-> 0, p |-> r.p, err |-> "struct.error"]
    ELSE [v |-> FromLE(r.v), p |-> r.p, err |-> ""]

\* read1, read2, read4, read8
readInt(b, p, n) == unpack(read(b, p, n), n)

\* the bytes that follow their length l
readData(b, l) ==
    IF l.err # "" THEN [v |-> <<>>, p |-> l.p, err |-> l.err] ELSE read(b, l.p, l.v)

\* a length of n bytes followed by that many bytes: read_prefixed_string
\* (n = 4) and the data of Schema (n = 4), Attachment and Chunk (n = 8)
readPrefixed(b, p, n) == readData(b, readInt(b, p, n))

\* the values read so far with one more, or the exception of its read
Appended(acc, f) ==
    [v |-> IF f.err = "" THEN Append(acc.v, f.v) ELSE <<>>, p |-> f.p, err |-> f.err]

\* the kinds of the two fields of an entry of a block
EntryKinds(kind) ==
    CASE kind = "map" -> <<"str", "str">>
      [] kind = "u2u8" -> <<"u2", "u8">>
      [] kind = "u8u8" -> <<"u8", "u8">>

\* the fields of a record's payload in order, up to the first exception
RECURSIVE readFieldsFrom(_, _, _, _)
\* while stream.count < end: read one entry of the given kinds, over and over
RECURSIVE readEntries(_, _, _, _)

\* a block: its byte length l, then entries until the block's end
readBlock(b, kind, l) ==
    IF l.err # "" THEN [v |-> <<>>, p |-> l.p, err |-> l.err]
    ELSE readEntries(b, l.p + l.v, EntryKinds(kind), [v |-> <<>>, p |-> l.p, err |-> ""])

\* one field of a record's payload, by kind
readField(b, p, kind) ==
    CASE kind = "u1" -> readInt(b, p, 1)
      [] kind = "u2" -> readInt(b, p, 2)
      [] kind = "u4" -> readInt(b, p, 4)
      [] kind = "u8" -> readInt(b, p, 8)
      [] kind = "str" -> readPrefixed(b, p, 4)
      [] kind = "bytes4" -> readPrefixed(b, p, 4)
      [] kind = "bytes8" -> readPrefixed(b, p, 8)
      [] OTHER -> readBlock(b, kind, readInt(b, p, 4))

readFieldsFrom(b, kinds, i, acc) ==
    IF acc.err # "" \/ i > Len(kinds) THEN acc
    ELSE readFieldsFrom(b, kinds, i + 1, Appended(acc, readField(b, acc.p, kinds[i])))

readFields(b, p, kinds) == readFieldsFrom(b, kinds, 1, [v |-> <<>>, p |-> p, err |-> ""])

readEntries(b, end, kinds, acc) ==
    IF acc.err # "" \/ ~(acc.p < end) THEN acc
    ELSE readEntries(b, end, kinds, Appended(acc, readFields(b, acc.p, kinds)))

\* the dict a read loop builds: a later entry replaces an earlier one of its key
RECURSIVE ToDict(_)
ToDict(entries) ==
    IF entries = <<>> THEN <<>>
    ELSE DictSet(ToDict(SubSeq(entries, 1, Len(entries) - 1)),
                 entries[Len(entries)][1], entries[Len(entries)][2])

(***************************************************************************)
(* records.py: the read method of every record type.  X_read gives the     *)
(* record rec read at offset p, the offset after it and the exception;     *)
(* X_record is the record made of the fields f that were read.             *)
(***************************************************************************)
Decoded(f, rec) == [rec |-> IF f.err = "" THEN rec ELSE <<>>, p |-> f.p, err |-> f.err]

Header_record(f) ==
    Decoded(f, [type |-> "Header", profile |-> f.v[1], library |-> f.v[2]])
Header_read(b, p) == Header_record(readFields(b, p, <<"str", "str">>))

Footer_record(f) ==
    Decoded(f, [type |-> "Footer", summary_start |-> f.v[1],
                summary_offset_start |-> f.v[2], summary_crc |-> f.v[3]])
Footer_read(b, p) == Footer_record(readFields(b, p, <<"u8", "u8", "u4">>))

Schema_record(f) ==
    Decoded(f, [type |-> "Schema", id |-> f.v[1], name |-> f.v[2],
                encoding |-> f.v[3], data |-> f.v[4]])
Schema_read(b, p) == Schema_record(readFields(b, p, <<"u2", "str", "str", "bytes4">>))

Channel_record(f) ==
    Decoded(f, [type |-> "Channel", id |-> f.v[1], schema_id |-> f.v[2],
                topic |-> f.v[3], message_encoding |-> f.v[4],
                metadata |-> ToDict(f.v[5])])
Channel_read(b, p) == Channel_record(readFields(b, p, <<"u2", "u2", "str", "str", "map">>))

\* the data is whatever follows the 22 bytes of fixed fields
Message_record(f, d) ==
    Decoded(d, [type |-> "Message", channel_id |-> f.v[1], sequence |-> f.v[2],
                log_time |-> f.v[3], publish_time |-> f.v[4], data |-> d.v])
Message_data(b, f, length) ==
    Message_record(f, IF f.err # "" THEN f ELSE read(b, f.p, length - 22))
Message_read(b, p, length) ==
    Message_data(b, readFields(b, p, <<"u2", "u4", "u8", "u8">>), length)

Chunk_record(f) ==
    Decoded(f, [type |-> "Chunk", message_start_time |-> f.v[1],
                message_end_time |-> f.v[2], uncompressed_size |-> f.v[3],
                uncompressed_crc |-> f.v[4], compression |-> f.v[5],
                data |-> f.v[6]])
Chunk_read(b, p) ==
    Chunk_record(readFields(b, p, <<"u8", "u8", "u8", "u4", "str", "bytes8">>))

MessageIndex_record(f) ==
    Decoded(f, [type |-> "MessageIndex", channel_id |-> f.v[1], records |-> f.v[2]])
MessageIndex_read(b, p) == MessageIndex_record(readFields(b, p, <<"u2", "u8u8">>))

ChunkIndex_record(f) ==
    Decoded(f, [type |-> "ChunkIndex", message_start_time |-> f.v[1],
                message_end_time |-> f.v[2], chunk_start_offset |-> f.v[3],
                chunk_length |-> f.v[4], message_index_offsets |-> ToDict(f.v[5]),
                message_index_length |-> f.v[6], compression |-> f.v[7],
                compressed_size |-> f.v[8], uncompressed_size |-> f.v[9]])
ChunkIndex_read(b, p) ==
    ChunkIndex_record(
        readFields(b, p, <<"u8", "u8", "u8", "u8", "u2u8", "u8", "str", "u8", "u8">>))

\* the trailing crc is read and dropped
Attachment_record(f) ==
    Decoded(f, [type |-> "Attachment", log_time |-> f.v[1], create_time |-> f.v[2],
                name |-> f.v[3], media_type |-> f.v[4], data |-> f.v[5]])
Attachment_read(b, p) ==
    Attachment_record(readFields(b, p, <<"u8", "u8", "str", "str", "bytes8", "u4">>))

AttachmentIndex_record(f) ==
    Decoded(f, [type |-> "AttachmentIndex", offset |-> f.v[1], length |-> f.v[2],
                log_time |-> f.v[3], create_time |-> f.v[4], data_size |-> f.v[5],
                name |-> f.v[6], media_type |-> f.v[7]])
AttachmentIndex_read(b, p) ==
    AttachmentIndex_record(
        readFields(b, p, <<"u8", "u8", "u8", "u8", "u8", "str", "str">>))

\* the loop over the per-channel counts assigns each count to message_count
\* too, so the record gets the last channel's count when there is one
Statistics_record(f) ==
    Decoded(f, [type |-> "Statistics",
                message_count |-> IF f.v[9] = <<>> THEN f.v[1]
                                  ELSE f.v[9][Len(f.v[9])][2],
                schema_count |-> f.v[2], channel_count |-> f.v[3],
                attachment_count |-> f.v[4], metadata_count |-> f.v[5],
                chunk_count |-> f.v[6], message_start_time |-> f.v[7],
                message_end_time |-> f.v[8],
                channel_message_counts |-> ToDict(f.v[9])])
Statistics_read(b, p) ==
    Statistics_record(
        readFields(b, p, <<"u8", "u2", "u4", "u4", "u4", "u4", "u8", "u8", "u2u8">>))

Metadata_record(f) ==
    Decoded(f, [type |-> "Metadata", name |-> f.v[1], metadata |-> ToDict(f.v[2])])
Metadata_read(b, p) == Metadata_record(readFields(b, p, <<"str", "map">>))

MetadataIndex_record(f) ==
    Decoded(f, [type |-> "MetadataIndex", offset |-> f.v[1], length |-> f.v[2],
                name |-> f.v[3]])
MetadataIndex_read(b, p) == MetadataIndex_record(readFields(b, p, <<"u8", "u8", "str">>))

SummaryOffset_record(f) ==
    Decoded(f, [type |-> "SummaryOffset", group_opcode |-> f.v[1],
                group_start |-> f.v[2], group_length |-> f.v[3]])
SummaryOffset_read(b, p) == SummaryOffset_record(readFields(b, p, <<"u1", "u8", "u8">>))

DataEnd_record(f) == Decoded(f, [type |-> "DataEnd", data_section_crc |-> f.v[1]])
DataEnd_read(b, p) == DataEnd_record(readFields(b, p, <<"u4">>))

(***************************************************************************)
(* Strings of the model, as UTF-8 bytes.                                   *)
(***************************************************************************)
StrEmpty == <<>>
StrA == <<97>>
StrB == <<98>>
StrLz4 == <<108, 122, 52>>
StrZstd == <<122, 115, 116, 100>>
Topics == {StrA, StrB}

\* lz4.frame.compress and zstandard.compress: a frame that starts with the
\* format's magic number and holds the data; the decompressors undo it
Lz4Magic == <<4, 34, 77, 24>>
ZstdMagic == <<40, 181, 47, 253>>
lz4_compress(data) == Lz4Magic \o data
zstd_compress(data) == ZstdMagic \o data
lz4_decompress(data) == SubSeq(data, 5, Len(data))
zstd_decompress(data) == SubSeq(data, 5, Len(data))

(***************************************************************************)
(* stream_reader.py.  A generator's result is out, the records it yields   *)
(* in order, and err, the exception that ends it ("" when it ends by       *)
(* itself).                                                                *)
(***************************************************************************)
None == [type |-> "None"]

\* read_magic
read_magic(b, p) ==
    LET r == read(b, p, MAGIC_SIZE)
    IN IF r.err # "" THEN [p |-> r.p, err |-> r.err]
       ELSE IF Len(r.v) < MAGIC_SIZE THEN [p |-> r.p, err |-> "struct.error"]
       ELSE IF r.v # MCAP0_MAGIC THEN [p |-> r.p, err |-> "InvalidMagic"]
       ELSE [p |-> r.p, err |-> ""]

\* get_chunk_data_stream: the chunk's records, decompressed, and the
\* exception of the crc validation
get_chunk_data_stream(chunk, validate_crc) ==
    LET data == IF chunk.compression = StrZstd THEN zstd_decompress(chunk.data)
                ELSE IF chunk.compression = StrLz4 THEN lz4_decompress(chunk.data)
                ELSE chunk.data
    IN [data |-> data,
        err |-> IF validate_crc /\ chunk.uncompressed_crc # 0
                   /\ crc32(data, 0) # chunk.uncompressed_crc
                THEN "CRCValidationError" ELSE ""]

\* the opcode and the length that start a record: read1, then read8
RecordHeader(opcode, ln) ==
    [opcode |-> opcode, length |-> ln.v, p |-> ln.p, err |-> ln.err]
read_length(b, op) ==
    IF op.err # "" THEN [opcode |-> 0, length |-> 0, p |-> op.p, err |-> op.err]
    ELSE RecordHeader(op.v, readInt(b, op.p, 8))
read_header(b, p) == read_length(b, readInt(b, p, 1))

\* what a skipping read leaves: no record
Skipped(r) == [rec |-> None, p |-> r.p, err |-> r.err]

\* breakup_chunk: the record that follows the header h in a chunk's bytes
chunk_record(b, h) ==
    IF h.err # "" THEN [rec |-> None, p |-> h.p, err |-> h.err]
    ELSE IF h.opcode = CHANNEL THEN Channel_read(b, h.p)
    ELSE IF h.opcode = MESSAGE THEN Message_read(b, h.p, h.length)
    ELSE IF h.opcode = SCHEMA THEN Schema_read(b, h.p)
    ELSE Skipped(read(b, h.p, h.length))

\* the loop of breakup_chunk over the chunk's decompressed bytes
RECURSIVE breakup_loop(_, _, _)
breakup_append(b, acc, r) ==
    IF r.err # "" THEN [out |-> acc, err |-> r.err]
    ELSE breakup_loop(b, r.p, IF r.rec.type = "None" THEN acc ELSE Append(acc, r.rec))
breakup_loop(b, p, acc) ==
    IF ~(p < Len(b)) THEN [out |-> acc, err |-> ""]
    ELSE breakup_append(b, acc, chunk_record(b, read_header(b, p)))

\* a list is returned, so an exception leaves no record at all
AllOrNothing(l) == IF l.err # "" THEN [out |-> <<>>, err |-> l.err] ELSE l

\* breakup_chunk
breakup_stream(s) ==
    IF s.err # "" THEN [out |-> <<>>, err |-> s.err]
    ELSE AllOrNothing(breakup_loop(s.data, 0, <<>>))
breakup_chunk(chunk, validate_crc) ==
    breakup_stream(get_chunk_data_stream(chunk, validate_crc))

\* StreamReader._read_record: the payload starts at p; an unknown opcode
\* reads length - 9 bytes and gives None
read_record(b, p, opcode, length) ==
    CASE opcode = ATTACHMENT -> Attachment_read(b, p)
      [] opcode = ATTACHMENT_INDEX -> AttachmentIndex_read(b, p)
      [] opcode = CHANNEL -> Channel_read(b, p)
      [] opcode = CHUNK -> Chunk_read(b, p)
      [] opcode = CHUNK_INDEX -> ChunkIndex_read(b, p)
      [] opcode = DATA_END -> DataEnd_read(b, p)
      [] opcode = FOOTER -> Footer_read(b, p)
      [] opcode = HEADER -> Header_read(b, p)
      [] opcode = MESSAGE -> Message_read(b, p, length)
      [] opcode = MESSAGE_INDEX -> MessageIndex_read(b, p)
      [] opcode = METADATA -> Metadata_read(b, p)
      [] opcode = METADATA_INDEX -> MetadataIndex_read(b, p)
      [] opcode = SCHEMA -> Schema_read(b, p)
      [] opcode = STATISTICS -> Statistics_read(b, p)
      [] opcode = SUMMARY_OFFSET -> SummaryOffset_read(b, p)
      [] OTHER -> Skipped(read(b, p, length - 9))

\* the while loop of StreamReader.records, from offset p of the bytes b; p0
\* is the offset at which this StreamReader began to read, and o its options
\* skip_magic, emit_chunks and validate_crcs.  records_loop reads the header
\* h of a record, records_record the record r, records_padding the padding
\* pad, and records_yield yields what the record gives
RECURSIVE records_loop(_, _, _, _, _)
records_yield(b, p0, p, o, acc, r, inner) ==
    IF inner.err # "" THEN [out |-> acc, err |-> inner.err, p |-> p]
    ELSE IF r.rec.type = "Footer"
    THEN [out |-> acc \o inner.out, err |-> read_magic(b, p).err,
          p |-> read_magic(b, p).p]
    ELSE records_loop(b, p0, p, o, acc \o inner.out)

records_padding(b, p0, o, acc, r, pad) ==
    IF pad.err # "" THEN [out |-> acc, err |-> pad.err, p |-> pad.p]
    ELSE records_yield(b, p0, pad.p, o, acc, r,
             IF r.rec.type = "Chunk" /\ ~o.emit_chunks
             THEN breakup_chunk(r.rec, o.validate_crcs)
             ELSE [out |-> IF r.rec.type = "None" THEN <<>> ELSE <<r.rec>>,
                   err |-> ""])

\* as records_record, with the checksum taken after DataEnd is read
records_record_checksum_after_read(b, p0, p, o, acc, h, r) ==
    IF r.err # "" THEN [out |-> acc, err |-> r.err, p |-> r.p]
    ELSE IF /\ o.validate_crcs /\ ~o.skip_magic
            /\ r.rec.type = "DataEnd"
            /\ r.rec.data_section_crc # 0
            /\ r.rec.data_section_crc # crc32(SubSeq(b, p0 + 1, r.p), 0)
    THEN [out |-> acc, err |-> "CRCValidationError", p |-> r.p]
    ELSE records_padding(b, p0, o, acc, r,
             IF h.length - (r.p - h.p) > 0 THEN read(b, r.p, h.length - (r.p - h.p))
             ELSE [v |-> <<>>, p |-> r.p, err |-> ""])

\* _read_record and the CRC of DataEnd: the checksum is the CRC32 of the
\* bytes read before the record's opcode
records_record(b, p0, p, o, acc, h, r) ==
    IF r.err # "" THEN [out |-> acc, err |-> r.err, p |-> r.p]
    ELSE IF /\ o.validate_crcs /\ ~o.skip_magic
            /\ r.rec.type = "DataEnd"
            /\ r.rec.data_section_crc # 0
            /\ r.rec.data_section_crc # crc32(SubSeq(b, p0 + 1, p), 0)
    THEN [out |-> acc, err |-> "CRCValidationError", p |-> r.p]
    ELSE records_padding(b, p0, o, acc, r,
             IF h.length - (r.p - h.p) > 0 THEN read(b, r.p, h.length - (r.p - h.p))
             ELSE [v |-> <<>>, p |-> r.p, err |-> ""])

records_header(b, p0, p, o, acc, h) ==
    records_record(b, p0, p, o, acc, h,
        IF h.err # "" THEN [rec |-> None, p |-> h.p, err |-> h.err]
        ELSE read_record(b, h.p, h.opcode, h.length))

records_loop(b, p0, p, o, acc) == records_header(b, p0, p, o, acc, read_header(b, p))

\* after the magic m, if it is read
records_start(b, p0, o, m) ==
    IF m.err # "" THEN [out |-> <<>>, err |-> m.err, p |-> m.p]
    ELSE records_loop(b, p0, m.p, o, <<>>)

\* StreamReader.records on a stream that holds the bytes b and stands at p0:
\* the records yielded, the exception, and the offset p at which the
\* stream stands when the generator has ended
records(b, p0, o) ==
    records_start(b, p0, o,
        IF o.skip_magic THEN [p |-> p0, err |-> ""] ELSE read_magic(b, p0))

\* StreamReader.__init__'s defaults
StreamReaderDefaults ==
    [skip_magic |-> FALSE, emit_chunks |-> FALSE, validate_crcs |-> FALSE]

(***************************************************************************)
(* State.  w is the Writer object (writer.py, Writer.__init__), with its   *)
(* output stream and its ChunkBuilder; calls is the log of the calls made  *)
(* on it, kept for stating properties; rd is a reader object (reader.py)   *)
(* with the state of its iter_messages generator; cx is a stream of bytes  *)
(* handed to a StreamReader, with what was put in it and what came out.    *)
(***************************************************************************)
VARIABLES w, calls, rd, cx

\* ChunkBuilder.__init__ and ChunkBuilder.reset leave the same state
ChunkBuilder_reset ==
    [message_end_time |-> 0,
     message_indices |-> <<>>,
     message_start_time |-> 0,
     record_writer |-> <<>>,
     num_messages |-> 0]

\* Writer.__init__: o holds the constructor's keyword arguments
Writer_init(o) ==
    [opts |-> o,
     phase |-> "init",
     stream |-> <<>>,
     record_builder |-> <<>>,
     attachment_indexes |-> <<>>,
     metadata_indexes |-> <<>>,
     channels |-> <<>>,
     chunk_builder |-> ChunkBuilder_reset,
     chunk_indices |-> <<>>,
     schemas |-> <<>>,
     statistics |-> [attachment_count |-> 0,
                     channel_count |-> 0,
                     channel_message_counts |-> <<>>,
                     chunk_count |-> 0,
                     message_count |-> 0,
                     metadata_count |-> 0,
                     message_start_time |-> 0,
                     message_end_time |-> 0,
                     schema_count |-> 0],
     summary_offsets |-> <<>>,
     data_section_crc |-> 0]

\* a chunk builder that takes the least of the stored start time and the new
\* log time also for the first message of a chunk
ChunkBuilder_add_message_stale_start(cb, message) ==
    LET indices == IF DictHas(cb.message_indices, message.channel_id)
                   THEN cb.message_indices
                   ELSE Append(cb.message_indices, <<message.channel_id, <<>>>>)
        entry == <<message.log_time, Len(cb.record_writer)>>
    IN [cb EXCEPT !.message_start_time = Min(cb.message_start_time, message.log_time),
                  !.message_end_time = Max(cb.message_end_time, message.log_time),
                  !.message_indices =
                      DictSet(indices, message.channel_id,
                              Append(DictGet(indices, message.channel_id), entry)),
                  !.num_messages = cb.num_messages + 1,
                  !.record_writer = cb.record_writer \o Message_write(message)]

\* ChunkBuilder.add_message
ChunkBuilder_add_message(cb, message) ==
    LET start == IF cb.num_messages = 0 THEN message.log_time
                 ELSE Min(cb.message_start_time, message.log_time)
        end == Max(cb.message_end_time, message.log_time)
        indices == IF DictHas(cb.message_indices, message.channel_id)
                   THEN cb.message_indices
                   ELSE Append(cb.message_indices, <<message.channel_id, <<>>>>)
        entry == <<message.log_time, Len(cb.record_writer)>>
    IN [cb EXCEPT !.message_start_time = start,
                  !.message_end_time = end,
                  !.message_indices =
                      DictSet(indices, message.channel_id,
                              Append(DictGet(indices, message.channel_id), entry)),
                  !.num_messages = cb.num_messages + 1,
                  !.record_writer = cb.record_writer \o Message_write(message)]

\* Writer.__flush: the record builder's bytes go to the stream and, with
\* enable_data_crcs, into the running data section crc
flush(x) ==
    [x EXCEPT !.data_section_crc =
                  IF x.opts.enable_data_crcs
                  THEN crc32(x.record_builder, x.data_section_crc)
                  ELSE x.data_section_crc,
              !.stream = x.stream \o x.record_builder,
              !.record_builder = <<>>]

\* a message index offset that is relative to the first MessageIndex record
message_index_offset_relative(message_index_start_offset, count) ==
    count

\* the file offset Writer.__finalize_chunk stores for a MessageIndex record:
\* the stream position after the chunk plus the bytes of the MessageIndex
\* records already in the record builder
message_index_offset(message_index_start_offset, count) ==
    message_index_start_offset + count

\* Writer.__finalize_chunk
finalize_chunk(x) ==
    IF ~x.opts.use_chunking THEN x
    ELSE IF x.chunk_builder.num_messages = 0 THEN x
    ELSE
    LET cb == x.chunk_builder
        chunk_data == cb.record_writer
        compression == x.opts.compression
        compressed_data == IF compression = StrLz4 THEN lz4_compress(chunk_data)
                           ELSE IF compression = StrZstd THEN zstd_compress(chunk_data)
                           ELSE chunk_data
        chunk == [compression |-> compression,
                  data |-> compressed_data,
                  message_start_time |-> cb.message_start_time,
                  message_end_time |-> cb.message_end_time,
                  uncompressed_crc |-> IF x.opts.enable_crcs
                                       THEN crc32(chunk_data, 0) ELSE 0,
                  uncompressed_size |-> Len(chunk_data)]
        x1 == flush([x EXCEPT !.statistics.chunk_count = @ + 1])
        chunk_start_offset == Len(x1.stream)
        x2 == [x1 EXCEPT !.record_builder = @ \o Chunk_write(chunk)]
        chunk_size == Len(x2.record_builder)
        x3 == flush(x2)
        message_index_start_offset == Len(x3.stream)
        ids == DictKeys(cb.message_indices)
        index_bytes == [i \in 1..Len(ids) |->
                          MessageIndex_write([channel_id |-> ids[i],
                                              records |-> cb.message_indices[i][2]])]
        offsets == IF x.opts.index_message
                   THEN [i \in 1..Len(ids) |->
                           <<ids[i], message_index_offset(
                                         message_index_start_offset,
                                         Len(Concat(SubSeq(index_bytes, 1, i - 1))))>>]
                   ELSE <<>>
        x4 == [x3 EXCEPT !.record_builder =
                             IF x.opts.index_message THEN Concat(index_bytes) ELSE <<>>]
        chunk_index == [message_start_time |-> chunk.message_start_time,
                        message_end_time |-> chunk.message_end_time,
                        chunk_start_offset |-> chunk_start_offset,
                        chunk_length |-> chunk_size,
                        message_index_offsets |-> offsets,
                        message_index_length |-> Len(x4.record_builder),
                        compression |-> chunk.compression,
                        compressed_size |-> Len(compressed_data),
                        uncompressed_size |-> chunk.uncompressed_size]
        x5 == flush(x4)
    IN [x5 EXCEPT !.chunk_indices = Append(@, chunk_index),
                  !.chunk_builder = ChunkBuilder_reset]

\* Writer.__maybe_finalize_chunk
maybe_finalize_chunk(x) ==
    IF x.opts.use_chunking /\ Len(x.chunk_builder.record_writer) > x.opts.chunk_size
    THEN finalize_chunk(x)
    ELSE x


vars == <<w, calls, rd, cx>>

(***************************************************************************)
(* The Writer's public methods, one action each.  The model accepts the    *)
(* methods in the order of the writing protocol: start first, then the     *)
(* register and add methods, then finish.                                  *)
(***************************************************************************)
\* Writer.start
start(x, profile, library) ==
    LET x1 == [x EXCEPT !.stream = @ \o MCAP0_MAGIC,
                        !.data_section_crc =
                            IF x.opts.enable_data_crcs
                            THEN crc32(MCAP0_MAGIC, x.data_section_crc)
                            ELSE x.data_section_crc,
                        !.record_builder =
                            @ \o Header_write([profile |-> profile, library |-> library]),
                        !.phase = "started"]
    IN flush(x1)

\* Writer.register_schema
register_schema(x, name, encoding, data) ==
    LET schema_id == Len(x.schemas) + 1
        schema == [id |-> schema_id, data |-> data, encoding |-> encoding, name |-> name]
        x1 == [x EXCEPT !.schemas = Append(@, schema),
                        !.statistics.schema_count = @ + 1]
    IN IF x.opts.use_chunking
       THEN maybe_finalize_chunk(
                [x1 EXCEPT !.chunk_builder.record_writer = @ \o Schema_write(schema)])
       ELSE [x1 EXCEPT !.record_builder = @ \o Schema_write(schema)]

\* Writer.register_channel
register_channel(x, topic, message_encoding, schema_id, metadata) ==
    LET channel_id == Len(x.channels) + 1
        channel == [id |-> channel_id, topic |-> topic,
                    message_encoding |-> message_encoding,
                    schema_id |-> schema_id, metadata |-> metadata]
        x1 == [x EXCEPT !.channels = Append(@, channel),
                        !.statistics.channel_count = @ + 1]
    IN IF x.opts.use_chunking
       THEN maybe_finalize_chunk(
                [x1 EXCEPT !.chunk_builder.record_writer = @ \o Channel_write(channel)])
       ELSE [x1 EXCEPT !.record_builder = @ \o Channel_write(channel)]

\* statistics that count a message for the file but not for its channel
statistics_add_message_no_channel_count(st, channel_id, log_time) ==
    LET counts == IF DictHas(st.channel_message_counts, channel_id)
                  THEN st.channel_message_counts
                  ELSE Append(st.channel_message_counts, <<channel_id, 0>>)
    IN [st EXCEPT !.message_start_time =
                      IF st.message_count = 0 THEN log_time
                      ELSE Min(log_time, st.message_start_time),
                  !.message_end_time = Max(log_time, st.message_end_time),
                  !.channel_message_counts = counts,
                  !.message_count = @ + 1]

\* the statistics update of Writer.add_message
statistics_add_message(st, channel_id, log_time) ==
    LET counts == IF DictHas(st.channel_message_counts, channel_id)
                  THEN st.channel_message_counts
                  ELSE Append(st.channel_message_counts, <<channel_id, 0>>)
    IN [st EXCEPT !.message_start_time =
                      IF st.message_count = 0 THEN log_time
                      ELSE Min(log_time, st.message_start_time),
                  !.message_end_time = Max(log_time, st.message_end_time),
                  !.channel_message_counts =
                      DictSet(counts, channel_id, DictGet(counts, channel_id) + 1),
                  !.message_count = @ + 1]

\* Writer.add_message
add_message(x, channel_id, log_time, data, publish_time, sequence) ==
    LET message == [channel_id |-> channel_id, log_time |-> log_time, data |-> data,
                    publish_time |-> publish_time, sequence |-> sequence]
        x1 == [x EXCEPT !.statistics =
                            statistics_add_message(@, channel_id, log_time)]
    IN IF x.opts.use_chunking
       THEN maybe_finalize_chunk(
                [x1 EXCEPT !.chunk_builder = ChunkBuilder_add_message(@, message)])
       ELSE flush([x1 EXCEPT !.record_builder = @ \o Message_write(message)])

\* Writer.add_attachment
add_attachment(x, create_time, log_time, name, media_type, data) ==
    LET x1 == flush(x)
        offset == Len(x1.stream)
        attachment == [create_time |-> create_time, log_time |-> log_time,
                       name |-> name, media_type |-> media_type, data |-> data]
        x2 == [x1 EXCEPT !.statistics.attachment_count = @ + 1,
                         !.record_builder = @ \o Attachment_write(attachment)]
        index == [offset |-> offset,
                  length |-> Len(x2.record_builder),
                  create_time |-> create_time,
                  log_time |-> log_time,
                  data_size |-> Len(data),
                  name |-> name,
                  media_type |-> media_type]
    IN flush([x2 EXCEPT !.attachment_indexes =
                            IF x.opts.index_attachment THEN Append(@, index) ELSE @])

\* Writer.add_metadata
add_metadata(x, name, data) ==
    LET x1 == flush(x)
        offset == Len(x1.stream)
        x2 == [x1 EXCEPT !.statistics.metadata_count = @ + 1,
                         !.record_builder =
                             @ \o Metadata_write([name |-> name, metadata |-> data])]
        index == [offset |-> offset, length |-> Len(x2.record_builder), name |-> name]
    IN flush([x2 EXCEPT !.metadata_indexes =
                            IF x.opts.index_metadata THEN Append(@, index) ELSE @])

\* one summary group of Writer.finish: the records' bytes are appended to the
\* summary builder sb and a SummaryOffset for them to the offsets so
SummaryGroup(acc, enabled, opcode, bytes, summary_start) ==
    IF ~enabled THEN acc
    ELSE [sb |-> acc.sb \o bytes,
          so |-> Append(acc.so, [group_opcode |-> opcode,
                                 group_start |-> summary_start + Len(acc.sb),
                                 group_length |-> Len(bytes)])]

\* as SummaryGroups, with the Statistics put before the Channels
SummaryGroups_statistics_first(x) ==
    <<<<x.opts.repeat_schemas, SCHEMA,
        Concat([i \in 1..Len(x.schemas) |-> Schema_write(x.schemas[i])])>>,
      <<x.opts.use_statistics, STATISTICS, Statistics_write(x.statistics)>>,
      <<x.opts.repeat_channels, CHANNEL,
        Concat([i \in 1..Len(x.channels) |-> Channel_write(x.channels[i])])>>,
      <<x.opts.index_chunk, CHUNK_INDEX,
        Concat([i \in 1..Len(x.chunk_indices) |->
                  ChunkIndex_write(x.chunk_indices[i])])>>,
      <<x.opts.index_attachment, ATTACHMENT_INDEX,
        Concat([i \in 1..Len(x.attachment_indexes) |->
                  AttachmentIndex_write(x.attachment_indexes[i])])>>,
      <<x.opts.index_metadata, METADATA_INDEX,
        Concat([i \in 1..Len(x.metadata_indexes) |->
                  MetadataIndex_write(x.metadata_indexes[i])])>>>>

\* the groups of the summary in the order finish writes them: the flag that
\* enables the group, its opcode and the bytes of its records
SummaryGroups(x) ==
    <<<<x.opts.repeat_schemas, SCHEMA,
        Concat([i \in 1..Len(x.schemas) |-> Schema_write(x.schemas[i])])>>,
      <<x.opts.repeat_channels, CHANNEL,
        Concat([i \in 1..Len(x.channels) |-> Channel_write(x.channels[i])])>>,
      <<x.opts.use_statistics, STATISTICS, Statistics_write(x.statistics)>>,
      <<x.opts.index_chunk, CHUNK_INDEX,
        Concat([i \in 1..Len(x.chunk_indices) |->
                  ChunkIndex_write(x.chunk_indices[i])])>>,
      <<x.opts.index_attachment, ATTACHMENT_INDEX,
        Concat([i \in 1..Len(x.attachment_indexes) |->
                  AttachmentIndex_write(x.attachment_indexes[i])])>>,
      <<x.opts.index_metadata, METADATA_INDEX,
        Concat([i \in 1..Len(x.metadata_indexes) |->
                  MetadataIndex_write(x.metadata_indexes[i])])>>>>

RECURSIVE write_groups(_, _, _, _)
write_groups(groups, i, summary_start, acc) ==
    IF i > Len(groups) THEN acc
    ELSE write_groups(groups, i + 1, summary_start,
             SummaryGroup(acc, groups[i][1], groups[i][2], groups[i][3], summary_start))

\* as finish_footer, with the crc of the summary data alone
finish_footer_data_crc(x, summary_start, summary_offset_start, summary_offsets, summary_data) ==
    LET footer_start == IF Len(summary_data) = 0 THEN 0 ELSE summary_start
        summary_crc == IF x.opts.enable_crcs THEN crc32(summary_data, 0) ELSE 0
    IN [flush([x EXCEPT !.summary_offsets = summary_offsets,
                        !.stream = @ \o summary_data,
                        !.record_builder =
                            @ \o Footer_write([summary_start |-> footer_start,
                                               summary_offset_start |-> summary_offset_start,
                                               summary_crc |-> summary_crc])])
          EXCEPT !.stream = @ \o MCAP0_MAGIC, !.phase = "finished"]

\* Writer.finish, from the summary data on: the crc, the Footer, the magic
finish_footer(x, summary_start, summary_offset_start, summary_offsets, summary_data) ==
    LET footer_start == IF Len(summary_data) = 0 THEN 0 ELSE summary_start
        summary_crc ==
            IF x.opts.enable_crcs
            THEN crc32(write1(FOOTER) \o write8(8 + 8 + 4) \o write8(footer_start)
                       \o write8(summary_offset_start),
                       crc32(summary_data, 0))
            ELSE 0
    IN [flush([x EXCEPT !.summary_offsets = summary_offsets,
                        !.stream = @ \o summary_data,
                        !.record_builder =
                            @ \o Footer_write([summary_start |-> footer_start,
                                               summary_offset_start |-> summary_offset_start,
                                               summary_crc |-> summary_crc])])
          EXCEPT !.stream = @ \o MCAP0_MAGIC, !.phase = "finished"]

\* Writer.finish, from the groups g of the summary on: the summary offsets
finish_offsets(x, summary_start, g) ==
    finish_footer(x, summary_start,
        IF x.opts.use_summary_offsets THEN summary_start + Len(g.sb) ELSE 0,
        g.so,
        IF x.opts.use_summary_offsets
        THEN g.sb \o Concat([i \in 1..Len(g.so) |-> SummaryOffset_write(g.so[i])])
        ELSE g.sb)

\* Writer.finish, after the data section is flushed: the groups of the summary
finish_summary(x) ==
    finish_offsets(x, Len(x.stream),
        write_groups(SummaryGroups(x), 1, Len(x.stream),
                     [sb |-> <<>>, so |-> x.summary_offsets]))

\* Writer.finish, after the last chunk is finalized: DataEnd
finish_data_end(x) ==
    finish_summary(
        flush([x EXCEPT !.record_builder =
                   @ \o DataEnd_write([data_section_crc |-> x.data_section_crc])]))

\* Writer.finish
finish(x) == finish_data_end(finalize_chunk(x))

\* the arguments the model passes to the Writer's methods
SchemaName == <<83>>
SchemaData == <<123, 125>>
MessageEncoding == <<106>>
Library == <<116>>
AttachmentName == <<97>>
AttachmentData == <<102>>
MetadataName == <<109>>
MetadataMap == << <<(<<107>>), (<<118>>)>> >>
\* publish_time of every message, apart from every log_time
PublishTime == MaxTime + 5

\* Optional arguments and results: <<>> is None and <<v>> the value v
Nothing == <<>>
Some(v) == <<v>>

\* the arguments of iter_messages, and validate_crcs of the reader's
\* constructor, with their defaults
DefaultQuery ==
    [topics |-> Nothing, start_time |-> Nothing, end_time |-> Nothing,
     log_time_order |-> TRUE, reverse |-> FALSE, validate_crcs |-> FALSE]

\* no reader object yet
ReaderIdle ==
    [reader |-> "", phase |-> "idle", query |-> DefaultQuery, summary |-> None,
     message_queue |-> [kind |-> "", q |-> <<>>, reverse |-> FALSE],
     out |-> <<>>, err |-> ""]

\* no stream of bytes yet
CodecIdle ==
    [phase |-> "idle", record |-> None, position |-> 0, bytes |-> <<>>,
     out |-> <<>>, err |-> ""]

Start ==
    /\ w.phase = "init"
    /\ w' = start(w, StrEmpty, Library)
    /\ calls' = Append(calls, [op |-> "start"])
    /\ UNCHANGED <<rd, cx>>

RegisterSchema ==
    /\ w.phase = "started"
    /\ Len(calls) <= MaxCalls
    /\ Len(w.schemas) < MaxSchemas
    /\ w' = register_schema(w, SchemaName, StrEmpty, SchemaData)
    /\ calls' = Append(calls, [op |-> "register_schema"])
    /\ UNCHANGED <<rd, cx>>

\* the n-th channel gets the n-th topic and the schema registered last, if any
RegisterChannel ==
    /\ w.phase = "started"
    /\ Len(calls) <= MaxCalls
    /\ Len(w.channels) < MaxChannels
    /\ LET topic == IF Len(w.channels) = 0 THEN StrA ELSE StrB
           schema_id == Len(w.schemas)
       IN /\ w' = register_channel(w, topic, MessageEncoding, schema_id, <<>>)
          /\ calls' = Append(calls, [op |-> "register_channel"])
    /\ UNCHANGED <<rd, cx>>

AddMessage ==
    /\ w.phase = "started"
    /\ Len(calls) <= MaxCalls
    /\ w.statistics.message_count < MaxMessages
    /\ \E channel_id \in 1..Len(w.channels), log_time \in 0..MaxTime :
          /\ w' = add_message(w, channel_id, log_time, <<>>, PublishTime,
                              w.statistics.message_count)
          /\ calls' = Append(calls, [op |-> "add_message", channel_id |-> channel_id,
                                     log_time |-> log_time,
                                     sequence |-> w.statistics.message_count])
    /\ UNCHANGED <<rd, cx>>

AddAttachment ==
    /\ w.phase = "started"
    /\ Len(calls) <= MaxCalls
    /\ w.statistics.attachment_count < MaxAttachments
    /\ w' = add_attachment(w, 1, 2, AttachmentName, StrEmpty, AttachmentData)
    /\ calls' = Append(calls, [op |-> "add_attachment"])
    /\ UNCHANGED <<rd, cx>>

AddMetadata ==
    /\ w.phase = "started"
    /\ Len(calls) <= MaxCalls
    /\ w.statistics.metadata_count < MaxMetadata
    /\ w' = add_metadata(w, MetadataName, MetadataMap)
    /\ calls' = Append(calls, [op |-> "add_metadata"])
    /\ UNCHANGED <<rd, cx>>

Finish ==
    /\ w.phase = "started"
    /\ w' = finish(w)
    /\ calls' = Append(calls, [op |-> "finish"])
    /\ UNCHANGED <<rd, cx>>

\* the keyword arguments of Writer.__init__
DefaultOptions ==
    [chunk_size |-> 1024 * 1024,
     compression |-> StrZstd,
     index_attachment |-> TRUE,
     index_chunk |-> TRUE,
     index_message |-> TRUE,
     index_metadata |-> TRUE,
     repeat_channels |-> TRUE,
     repeat_schemas |-> TRUE,
     use_chunking |-> TRUE,
     use_statistics |-> TRUE,
     use_summary_offsets |-> TRUE,
     enable_crcs |-> TRUE,
     enable_data_crcs |-> FALSE]

WriterOptions ==
    {[DefaultOptions EXCEPT !.chunk_size = cs, !.use_chunking = uc,
                            !.enable_data_crcs = dc]
       : cs \in {0, 100}, uc \in {TRUE}, dc \in BOOLEAN}
    \cup {[DefaultOptions EXCEPT !.use_chunking = FALSE, !.enable_data_crcs = dc]
            : dc \in BOOLEAN}
    \cup {[DefaultOptions EXCEPT !.enable_crcs = FALSE],
          [DefaultOptions EXCEPT !.repeat_schemas = FALSE, !.use_statistics = FALSE,
                                 !.index_attachment = FALSE],
          [DefaultOptions EXCEPT !.repeat_channels = FALSE, !.index_chunk = FALSE,
                                 !.index_metadata = FALSE,
                                 !.use_summary_offsets = FALSE],
          [DefaultOptions EXCEPT !.index_attachment = FALSE, !.index_chunk = FALSE,
                                 !.index_message = FALSE, !.index_metadata = FALSE,
                                 !.repeat_channels = FALSE, !.repeat_schemas = FALSE,
                                 !.use_statistics = FALSE,
                                 !.use_summary_offsets = FALSE],
          [DefaultOptions EXCEPT !.index_attachment = FALSE, !.index_chunk = FALSE,
                                 !.index_message = FALSE, !.index_metadata = FALSE,
                                 !.repeat_channels = FALSE, !.repeat_schemas = FALSE,
                                 !.use_statistics = FALSE]}

Init == /\ \E o \in WriterOptions : w = Writer_init(o)
        /\ calls = <<>>
        /\ rd = ReaderIdle
        /\ cx = CodecIdle
Next == Start \/ RegisterSchema \/ RegisterChannel \/ AddMessage
        \/ AddAttachment \/ AddMetadata \/ Finish
Spec == Init /\ [][Next]_vars

(***************************************************************************)
(* _message_queue.py.  A queue item is a ChunkIndex record or a message    *)
(* tuple ((schema, channel, message), chunk offset, index in the chunk);   *)
(* an _Orderable is an item with the queue's reverse flag.                 *)
(***************************************************************************)
MessageTuple(triple, chunk_start_offset, index) ==
    [type |-> "tuple", v |-> <<triple, chunk_start_offset, index>>]

make_orderable(item, reverse) == [item |-> item, reverse |-> reverse]

\* a log_time that is the end time of the chunk in either direction
ChunkIndexWrapper_log_time_end(self) == self.item.message_end_time

\* _ChunkIndexWrapper.log_time
ChunkIndexWrapper_log_time(self) ==
    IF self.reverse THEN self.item.message_end_time
    ELSE self.item.message_start_time

\* _ChunkIndexWrapper.position
ChunkIndexWrapper_position(self) ==
    IF self.reverse
    THEN <<self.item.chunk_start_offset + self.item.chunk_length, Nothing>>
    ELSE <<self.item.chunk_start_offset, Nothing>>

\* _MessageTupleWrapper.log_time
MessageTupleWrapper_log_time(self) == self.item.v[1][3].log_time

\* _MessageTupleWrapper.position
MessageTupleWrapper_position(self) == <<self.item.v[2], Some(self.item.v[3])>>

log_time(self) ==
    IF self.item.type = "ChunkIndex" THEN ChunkIndexWrapper_log_time(self)
    ELSE MessageTupleWrapper_log_time(self)

position(self) ==
    IF self.item.type = "ChunkIndex" THEN ChunkIndexWrapper_position(self)
    ELSE MessageTupleWrapper_position(self)

\* _Orderable._compare
compare(self, a, b) == IF self.reverse THEN a > b ELSE a < b

\* _Orderable._position_less_than
position_less_than(self, other) ==
    LET this == position(self)
        that == position(other)
    IN IF this[2] = Nothing \/ that[2] = Nothing
       THEN compare(self, this[1], that[1])
       ELSE IF this[1] = that[1]
            THEN compare(self, this[2][1], that[2][1])
            ELSE compare(self, this[1], that[1])

\* _Orderable.__lt__
lt(self, other) ==
    IF log_time(self) = log_time(other) THEN position_less_than(self, other)
    ELSE compare(self, log_time(self), log_time(other))

\* heapq on a list: the element at Python's index i is heap[i + 1]
RECURSIVE siftdown(_, _, _, _)
siftdown(heap, startpos, pos, newitem) ==
    IF pos > startpos
    THEN LET parentpos == (pos - 1) \div 2
             parent == heap[parentpos + 1]
         IN IF lt(newitem, parent)
            THEN siftdown([heap EXCEPT ![pos + 1] = parent], startpos, parentpos, newitem)
            ELSE [heap EXCEPT ![pos + 1] = newitem]
    ELSE [heap EXCEPT ![pos + 1] = newitem]

RECURSIVE siftup_loop(_, _, _)
siftup_loop(heap, pos, childpos) ==
    IF childpos < Len(heap)
    THEN LET rightpos == childpos + 1
             c == IF rightpos < Len(heap) /\ ~lt(heap[childpos + 1], heap[rightpos + 1])
                  THEN rightpos ELSE childpos
         IN siftup_loop([heap EXCEPT ![pos + 1] = heap[c + 1]], c, 2 * c + 1)
    ELSE [heap |-> heap, pos |-> pos]

siftup(heap, pos) ==
    LET newitem == heap[pos + 1]
        r == siftup_loop(heap, pos, 2 * pos + 1)
    IN siftdown(r.heap, pos, r.pos, newitem)

heappush(heap, item) ==
    siftdown(Append(heap, item), 0, Len(heap), item)

heappop(heap) ==
    LET lastelt == heap[Len(heap)]
        rest == SubSeq(heap, 1, Len(heap) - 1)
    IN IF Len(rest) > 0
       THEN [item |-> rest[1], heap |-> siftup([rest EXCEPT ![1] = lastelt], 0)]
       ELSE [item |-> lastelt, heap |-> <<>>]

\* make_message_queue
make_message_queue(log_time_order, reverse) ==
    IF log_time_order
    THEN [queue |-> [kind |-> "LogTimeOrderQueue", q |-> <<>>, reverse |-> reverse],
          err |-> ""]
    ELSE IF reverse
    THEN [queue |-> [kind |-> "", q |-> <<>>, reverse |-> FALSE], err |-> "ValueError"]
    ELSE [queue |-> [kind |-> "InsertOrderQueue", q |-> <<>>, reverse |-> FALSE],
          err |-> ""]

\* LogTimeOrderQueue.push and InsertOrderQueue.push
push(mq, item) ==
    IF mq.kind = "LogTimeOrderQueue"
    THEN [mq EXCEPT !.q = heappush(@, make_orderable(item, mq.reverse))]
    ELSE [mq EXCEPT !.q = Append(@, item)]

\* as pop, taking the newest item of an insert order queue
pop_newest(mq) ==
    IF mq.kind = "LogTimeOrderQueue"
    THEN LET r == heappop(mq.q)
         IN [item |-> r.item.item, queue |-> [mq EXCEPT !.q = r.heap]]
    ELSE [item |-> mq.q[Len(mq.q)],
          queue |-> [mq EXCEPT !.q = SubSeq(@, 1, Len(@) - 1)]]

\* LogTimeOrderQueue.pop and InsertOrderQueue.pop
pop(mq) ==
    IF mq.kind = "LogTimeOrderQueue"
    THEN LET r == heappop(mq.q)
         IN [item |-> r.item.item, queue |-> [mq EXCEPT !.q = r.heap]]
    ELSE [item |-> Head(mq.q), queue |-> [mq EXCEPT !.q = Tail(@)]]

(***************************************************************************)
(* reader.py.  A query q holds the arguments of iter_messages.             *)
(***************************************************************************)
FOOTER_SIZE ==
    Len(Footer_write([summary_start |-> 0, summary_offset_start |-> 0, summary_crc |-> 0]))

\* next() on a generator
next_record(g) ==
    IF Len(g.out) > 0 THEN [rec |-> g.out[1], err |-> ""]
    ELSE [rec |-> None, err |-> IF g.err # "" THEN g.err ELSE "StopIteration"]

Summary_init ==
    [type |-> "Summary", statistics |-> None, schemas |-> <<>>, channels |-> <<>>,
     attachment_indexes |-> <<>>, chunk_indexes |-> <<>>, metadata_indexes |-> <<>>]

\* the loop of _read_summary_from_stream_reader over the records recs
RECURSIVE read_summary_loop(_, _, _)
read_summary_loop(recs, i, summary) ==
    IF i > Len(recs) THEN [summary |-> summary, returned |-> FALSE]
    ELSE
    LET record == recs[i]
    IN CASE record.type = "Statistics" ->
              read_summary_loop(recs, i + 1, [summary EXCEPT !.statistics = record])
         [] record.type = "Schema" ->
              read_summary_loop(recs, i + 1,
                  [summary EXCEPT !.schemas = DictSet(@, record.id, record)])
         [] record.type = "Channel" ->
              read_summary_loop(recs, i + 1,
                  [summary EXCEPT !.channels = DictSet(@, record.id, record)])
         [] record.type = "AttachmentIndex" ->
              read_summary_loop(recs, i + 1,
                  [summary EXCEPT !.attachment_indexes = Append(@, record)])
         [] record.type = "ChunkIndex" ->
              read_summary_loop(recs, i + 1,
                  [summary EXCEPT !.chunk_indexes = Append(@, record)])
         [] record.type = "MetadataIndex" ->
              read_summary_loop(recs, i + 1,
                  [summary EXCEPT !.metadata_indexes = Append(@, record)])
         [] record.type = "Footer" ->
              [summary |-> IF record.summary_start = 0 THEN None ELSE summary,
               returned |-> TRUE]
         [] OTHER -> read_summary_loop(recs, i + 1, summary)

\* _read_summary_from_stream_reader, on the result g of StreamReader.records
read_summary_from_stream_reader(g) ==
    LET r == read_summary_loop(g.out, 1, Summary_init)
    IN IF r.returned THEN [summary |-> r.summary, err |-> ""]
       ELSE IF g.err # "" THEN [summary |-> None, err |-> g.err]
       ELSE [summary |-> r.summary, err |-> ""]

\* SeekingReader.get_summary, after the read of the footer
summary_of_footer(b, footer) ==
    IF footer.err # "" THEN [summary |-> None, err |-> footer.err]
    ELSE IF footer.rec.type # "Footer" THEN [summary |-> None, err |-> "McapError"]
    ELSE IF footer.rec.summary_start = 0 THEN [summary |-> None, err |-> ""]
    ELSE read_summary_from_stream_reader(
             records(b, footer.rec.summary_start,
                     [StreamReaderDefaults EXCEPT !.skip_magic = TRUE]))

\* SeekingReader.get_summary on the bytes b
get_summary(b) ==
    summary_of_footer(b,
        next_record(records(b, Len(b) - (FOOTER_SIZE + MAGIC_SIZE),
                            [StreamReaderDefaults EXCEPT !.skip_magic = TRUE])))

\* the inner loop of _chunks_matching_topics over the keys of
\* message_index_offsets: "match", "no match" or the exception
RECURSIVE chunk_matches(_, _, _, _)
chunk_matches(summary, topics, keys, i) ==
    IF i > Len(keys) THEN "no match"
    ELSE IF topics = Nothing THEN "match"
    ELSE IF ~DictHas(summary.channels, keys[i]) THEN "KeyError"
    ELSE IF DictGet(summary.channels, keys[i]).topic \in topics[1] THEN "match"
    ELSE chunk_matches(summary, topics, keys, i + 1)

RECURSIVE chunks_matching_loop(_, _, _, _, _, _)
chunks_matching_loop(summary, topics, start_time, end_time, i, out) ==
    IF i > Len(summary.chunk_indexes) THEN [out |-> out, err |-> ""]
    ELSE
    LET chunk_index == summary.chunk_indexes[i]
    IN IF start_time # Nothing /\ chunk_index.message_end_time < start_time[1]
       THEN chunks_matching_loop(summary, topics, start_time, end_time, i + 1, out)
       ELSE IF end_time # Nothing /\ chunk_index.message_start_time >= end_time[1]
       THEN chunks_matching_loop(summary, topics, start_time, end_time, i + 1, out)
       ELSE LET m == chunk_matches(summary, topics,
                                   DictKeys(chunk_index.message_index_offsets), 1)
            IN IF m = "KeyError" THEN [out |-> out, err |-> "KeyError"]
               ELSE chunks_matching_loop(summary, topics, start_time, end_time, i + 1,
                        IF m = "match" THEN Append(out, chunk_index) ELSE out)

\* _chunks_matching_topics
chunks_matching_topics(summary, topics, start_time, end_time) ==
    chunks_matching_loop(summary, topics, start_time, end_time, 1, <<>>)

\* the loop of NonSeekingReader._iter_messages_internal over the records recs
RECURSIVE iter_messages_internal_loop(_, _, _, _, _, _)
iter_messages_internal_loop(recs, i, schemas, channels, q, out) ==
    IF i > Len(recs) THEN [out |-> out, err |-> ""]
    ELSE
    LET record == recs[i]
    IN IF record.type = "Schema"
       THEN iter_messages_internal_loop(recs, i + 1, DictSet(schemas, record.id, record),
                                        channels, q, out)
       ELSE IF record.type = "Channel"
       THEN IF record.schema_id # 0 /\ ~DictHas(schemas, record.schema_id)
            THEN [out |-> out, err |-> "McapError"]
            ELSE iter_messages_internal_loop(recs, i + 1, schemas,
                                             DictSet(channels, record.id, record), q, out)
       ELSE IF record.type = "Message"
       THEN IF ~DictHas(channels, record.channel_id)
            THEN [out |-> out, err |-> "McapError"]
            ELSE
            LET channel == DictGet(channels, record.channel_id)
                skip == \/ q.topics # Nothing /\ channel.topic \notin q.topics[1]
                        \/ q.start_time # Nothing /\ record.log_time < q.start_time[1]
                        \/ q.end_time # Nothing /\ record.log_time >= q.end_time[1]
                schema == IF channel.schema_id = 0 THEN None
                          ELSE DictGet(schemas, channel.schema_id)
            IN iter_messages_internal_loop(recs, i + 1, schemas, channels, q,
                   IF skip THEN out ELSE Append(out, <<schema, channel, record>>))
       ELSE iter_messages_internal_loop(recs, i + 1, schemas, channels, q, out)

\* NonSeekingReader._iter_messages_internal on the records g of the stream
iter_messages_of(g, q) ==
    LET r == iter_messages_internal_loop(g.out, 1, <<>>, <<>>, q, <<>>)
    IN IF r.err # "" THEN r ELSE [out |-> r.out, err |-> g.err]

\* NonSeekingReader._iter_messages_internal on the bytes b
iter_messages_internal(b, q) ==
    iter_messages_of(
        records(b, 0, [StreamReaderDefaults EXCEPT !.validate_crcs = q.validate_crcs]), q)

\* sorted(tuples, key=log_time, reverse=reverse): stable, also when reversed
RECURSIVE sorted(_, _)
sorted(tuples, reverse) ==
    IF tuples = <<>> THEN <<>>
    ELSE LET n == Len(tuples)
             x == tuples[n]
             front == sorted(SubSeq(tuples, 1, n - 1), reverse)
             after == {j \in 1..Len(front) :
                         IF reverse THEN front[j][3].log_time < x[3].log_time
                         ELSE front[j][3].log_time > x[3].log_time}
             k == IF after = {} THEN Len(front) + 1
                  ELSE CHOOSE j \in after : \A j2 \in after : j <= j2
         IN SubSeq(front, 1, k - 1) \o <<x>> \o SubSeq(front, k, Len(front))

\* NonSeekingReader.iter_messages, on what _iter_messages_internal yields
iter_messages_sorted(r, q) ==
    IF ~q.log_time_order THEN r
    ELSE IF r.err # "" THEN [out |-> <<>>, err |-> r.err]
    ELSE [out |-> sorted(r.out, q.reverse), err |-> ""]

\* NonSeekingReader.iter_messages on the bytes b: the tuples yielded and the
\* exception that ends the generator
NonSeekingReader_iter_messages(b, q) ==
    iter_messages_sorted(iter_messages_internal(b, q), q)

\* the loop of SeekingReader.iter_messages over the records of a chunk:
\* the queue after the pushes, and the exception
RECURSIVE push_messages(_, _, _, _, _, _)
push_messages(summary, q, recs, i, chunk_start_offset, mq) ==
    IF i > Len(recs) THEN [queue |-> mq, err |-> ""]
    ELSE
    LET record == recs[i]
    IN IF record.type # "Message"
       THEN push_messages(summary, q, recs, i + 1, chunk_start_offset, mq)
       ELSE IF ~DictHas(summary.channels, record.channel_id)
       THEN [queue |-> mq, err |-> "KeyError"]
       ELSE
       LET channel == DictGet(summary.channels, record.channel_id)
           skip == \/ q.topics # Nothing /\ channel.topic \notin q.topics[1]
                   \/ q.start_time # Nothing /\ record.log_time < q.start_time[1]
                   \/ q.end_time # Nothing /\ record.log_time >= q.end_time[1]
       IN IF skip THEN push_messages(summary, q, recs, i + 1, chunk_start_offset, mq)
          ELSE IF channel.schema_id # 0 /\ ~DictHas(summary.schemas, channel.schema_id)
          THEN [queue |-> mq, err |-> "KeyError"]
          ELSE
          LET schema == IF channel.schema_id = 0 THEN None
                        ELSE DictGet(summary.schemas, channel.schema_id)
          IN push_messages(summary, q, recs, i + 1, chunk_start_offset,
                 push(mq, MessageTuple(<<schema, channel, record>>,
                                       chunk_start_offset, i - 1)))

\* the pushes of the chunk indexes that match the query
RECURSIVE push_all(_, _, _)
push_all(mq, items, i) ==
    IF i > Len(items) THEN mq ELSE push_all(push(mq, items[i]), items, i + 1)

\* a generator that has ended, by itself or by the exception err
Ended(r, err) == [r EXCEPT !.phase = IF err # "" THEN "raised" ELSE "done", !.err = err]

\* a generator that has ended if its queue is empty
Continue(r) == IF Len(r.message_queue.q) = 0 THEN Ended(r, "") ELSE r

\* SeekingReader.iter_messages, with the queue m made and the chunk indexes
\* c that match
iter_messages_queue(r, m, c) ==
    IF m.err # "" THEN Ended(r, m.err)
    ELSE IF c.err # "" THEN Ended(r, c.err)
    ELSE Continue([r EXCEPT !.phase = "iterating",
                            !.message_queue = push_all(m.queue, c.out, 1)])

\* SeekingReader.iter_messages, when there is no chunk index: what a
\* NonSeekingReader(self._stream), made with the defaults of its
\* constructor, yields
iter_messages_linear(r, n) == Ended([r EXCEPT !.out = n.out], n.err)

\* SeekingReader.iter_messages, with the summary s
iter_messages_summary(b, r, s) ==
    IF s.err # "" THEN Ended(r, s.err)
    ELSE IF s.summary.type = "None" \/ Len(s.summary.chunk_indexes) = 0
    THEN iter_messages_linear(r,
             NonSeekingReader_iter_messages(b, [r.query EXCEPT !.reverse = FALSE,
                                                              !.validate_crcs = FALSE]))
    ELSE iter_messages_queue([r EXCEPT !.summary = s.summary],
             make_message_queue(r.query.log_time_order, r.query.reverse),
             chunks_matching_topics(s.summary, r.query.topics, r.query.start_time,
                                    r.query.end_time))

\* SeekingReader.iter_messages(**q) on the bytes b, up to its while loop
SeekingReader_iter_messages(b, q) ==
    iter_messages_summary(b, [ReaderIdle EXCEPT !.reader = "SeekingReader", !.query = q],
                          get_summary(b))

\* one turn of the while loop, after the pushes m of a chunk's messages
next_pushed(r, m) ==
    IF m.err # "" THEN Ended([r EXCEPT !.message_queue = m.queue], m.err)
    ELSE Continue([r EXCEPT !.message_queue = m.queue])

\* one turn of the while loop, with the records recs of the chunk at offset
next_records(r, mq, offset, recs) ==
    next_pushed(r, IF recs.err # "" THEN [queue |-> mq, err |-> recs.err]
                   ELSE push_messages(r.summary, r.query, recs.out, 1, offset, mq))

\* one turn of the while loop, with the chunk read at offset
next_chunk(r, mq, offset, chunk) ==
    next_records(r, mq, offset,
                 IF chunk.err # "" THEN [out |-> <<>>, err |-> chunk.err]
                 ELSE breakup_chunk(chunk.rec, r.query.validate_crcs))

\* one turn of the while loop, with the item popped
next_item(r, b, p) ==
    IF p.item.type = "ChunkIndex"
    THEN next_chunk(r, p.queue, p.item.chunk_start_offset,
                    Chunk_read(b, p.item.chunk_start_offset + 1 + 8))
    ELSE Continue([r EXCEPT !.message_queue = p.queue, !.out = Append(@, p.item.v[1])])

\* one turn of the while loop of SeekingReader.iter_messages
SeekingReader_next(r, b) == next_item(r, b, pop(r.message_queue))

\* the generator run to its end
RECURSIVE SeekingReader_run(_, _)
SeekingReader_run(r, b) ==
    IF r.phase = "iterating" THEN SeekingReader_run(SeekingReader_next(r, b), b) ELSE r

\* list(SeekingReader(b).iter_messages(**q))
SeekingReader_list(b, q) == SeekingReader_run(SeekingReader_iter_messages(b, q), b)

(***************************************************************************)
(* Reading.  A file is written by the calls start, register_schema,        *)
(* register_channel for every channel, add_message for every log time of   *)
(* times and finish, and then read by one query on a SeekingReader or a    *)
(* NonSeekingReader.                                                       *)
(***************************************************************************)
\* the channel of the k-th message
ChannelOf(k) == ((k - 1) % MaxChannels) + 1

RECURSIVE register_channels(_, _)
register_channels(x, n) ==
    IF n > MaxChannels THEN x
    ELSE register_channels(
             register_channel(x, IF n = 1 THEN StrA ELSE StrB, MessageEncoding,
                              IF n = 1 THEN 1 ELSE 0, <<>>), n + 1)

RECURSIVE add_messages(_, _, _)
add_messages(x, times, k) ==
    IF k > Len(times) THEN x
    ELSE add_messages(add_message(x, ChannelOf(k), times[k], <<>>, PublishTime, k - 1),
                      times, k + 1)

WriteFile(o, times) ==
    LET x0 == start(Writer_init(o), StrEmpty, Library)
        x1 == register_schema(x0, SchemaName, StrEmpty, SchemaData)
        x2 == register_channels(x1, 1)
    IN [w |-> finish(add_messages(x2, times, 1)),
        calls |-> <<[op |-> "start"], [op |-> "register_schema"]>>
                  \o [n \in 1..MaxChannels |-> [op |-> "register_channel"]]
                  \o [k \in 1..Len(times) |->
                        [op |-> "add_message", channel_id |-> ChannelOf(k),
                         log_time |-> times[k], sequence |-> k - 1]]
                  \o <<[op |-> "finish"]>>]

MessageTimes == UNION {[1..n -> 0..MaxTime] : n \in 0..MaxMessages}

\* the writer options of the files that are read
ReadOptions ==
    {DefaultOptions,
     [DefaultOptions EXCEPT !.chunk_size = 0],
     [DefaultOptions EXCEPT !.chunk_size = 100],
     [DefaultOptions EXCEPT !.use_chunking = FALSE],
     [DefaultOptions EXCEPT !.index_chunk = FALSE],
     [DefaultOptions EXCEPT !.index_message = FALSE],
     [DefaultOptions EXCEPT !.repeat_channels = FALSE],
     [DefaultOptions EXCEPT !.repeat_schemas = FALSE]}

Queries ==
    {q \in [topics : {Nothing, Some({StrA})},
            start_time : {Nothing, Some(1)},
            end_time : {Nothing, Some(MaxTime)},
            log_time_order : BOOLEAN,
            reverse : BOOLEAN,
            validate_crcs : {FALSE}] : q.reverse => q.log_time_order}

InitRead ==
    /\ \E o \in ReadOptions, times \in MessageTimes :
          /\ w = WriteFile(o, times).w
          /\ calls = WriteFile(o, times).calls
    /\ rd = ReaderIdle
    /\ cx = CodecIdle

SeekingIterMessages ==
    /\ rd.phase = "idle"
    /\ \E q \in Queries : rd' = SeekingReader_iter_messages(w.stream, q)
    /\ UNCHANGED <<w, calls, cx>>

SeekingNext ==
    /\ rd.reader = "SeekingReader"
    /\ rd.phase = "iterating"
    /\ rd' = SeekingReader_next(rd, w.stream)
    /\ UNCHANGED <<w, calls, cx>>

NonSeekingIterMessages ==
    /\ rd.phase = "idle"
    /\ \E q \in Queries :
          LET n == NonSeekingReader_iter_messages(w.stream, q)
          IN rd' = Ended([ReaderIdle EXCEPT !.reader = "NonSeekingReader",
                                            !.query = q, !.out = n.out], n.err)
    /\ UNCHANGED <<w, calls, cx>>

NextRead == SeekingIterMessages \/ SeekingNext \/ NonSeekingIterMessages
SpecRead == InitRead /\ [][NextRead]_vars

(***************************************************************************)
(* Round trip.  A record is written by its write method into an empty      *)
(* stream and read back by next(StreamReader(stream, skip_magic=True,      *)
(* emit_chunks=True).records).                                             *)
(***************************************************************************)
\* McapRecord.write, by the class of the record
McapRecord_write(r) ==
    CASE r.type = "Header" -> Header_write(r)
      [] r.type = "Footer" -> Footer_write(r)
      [] r.type = "Schema" -> Schema_write(r)
      [] r.type = "Channel" -> Channel_write(r)
      [] r.type = "Message" -> Message_write(r)
      [] r.type = "Chunk" -> Chunk_write(r)
      [] r.type = "MessageIndex" -> MessageIndex_write(r)
      [] r.type = "ChunkIndex" -> ChunkIndex_write(r)
      [] r.type = "Attachment" -> Attachment_write(r)
      [] r.type = "AttachmentIndex" -> AttachmentIndex_write(r)
      [] r.type = "Statistics" -> Statistics_write(r)
      [] r.type = "Metadata" -> Metadata_write(r)
      [] r.type = "MetadataIndex" -> MetadataIndex_write(r)
      [] r.type = "SummaryOffset" -> SummaryOffset_write(r)
      [] r.type = "DataEnd" -> DataEnd_write(r)

\* the values of the fields of the records that are written
Times == 0..MaxTime
Ids == 1..MaxChannels
Offsets == {0, 300}
Names == {StrEmpty, StrA}
Payloads == {<<>>, SchemaData}
Maps == {<<>>, MetadataMap}
\* per-channel numbers: none, one channel, every channel with its id as number
PerChannel == {<<>>, << <<1, 2>> >>, [c \in Ids |-> <<c, c>>]}
PerChannelSum(d) == IF Len(d) = 1 THEN d[1][2] ELSE (Len(d) * (Len(d) + 1)) \div 2
ChunkData == Message_write([channel_id |-> 1, sequence |-> 0, log_time |-> 1,
                            publish_time |-> 1, data |-> <<>>])

DataRecords ==
    {[type |-> "Header", profile |-> p, library |-> l] : p \in Names, l \in Names}
    \cup {[type |-> "Footer", summary_start |-> a, summary_offset_start |-> b,
           summary_crc |-> c] : a \in Offsets, b \in Offsets, c \in {0, 7}}
    \cup {[type |-> "Schema", id |-> i, name |-> n, encoding |-> e, data |-> d] :
             i \in 1..MaxSchemas, n \in Names, e \in Names, d \in Payloads}
    \cup {[type |-> "Channel", id |-> i, schema_id |-> j, topic |-> t,
           message_encoding |-> MessageEncoding, metadata |-> m] :
             i \in Ids, j \in 0..MaxSchemas, t \in Topics, m \in Maps}
    \cup {[type |-> "Message", channel_id |-> i, sequence |-> 0, log_time |-> t,
           publish_time |-> PublishTime, data |-> d] :
             i \in Ids, t \in Times, d \in Payloads}
    \cup {[type |-> "Chunk", message_start_time |-> 1, message_end_time |-> t,
           uncompressed_size |-> Len(ChunkData), uncompressed_crc |-> c,
           compression |-> StrEmpty, data |-> ChunkData] :
             t \in Times, c \in {0, crc32(ChunkData, 0)}}
    \cup {[type |-> "Chunk", message_start_time |-> 1, message_end_time |-> t,
           uncompressed_size |-> Len(ChunkData), uncompressed_crc |-> 0,
           compression |-> StrLz4, data |-> lz4_compress(ChunkData)] : t \in Times}
    \cup {[type |-> "Attachment", log_time |-> t, create_time |-> PublishTime,
           name |-> n, media_type |-> StrEmpty, data |-> d] :
             t \in Times, n \in Names, d \in Payloads}
    \cup {[type |-> "Metadata", name |-> n, metadata |-> m] : n \in Names, m \in Maps}
    \cup {[type |-> "DataEnd", data_section_crc |-> c] : c \in {0, 7}}

SummaryRecords ==
    {[type |-> "MessageIndex", channel_id |-> i, records |-> d] :
        i \in Ids, d \in PerChannel}
    \cup {[type |-> "ChunkIndex", message_start_time |-> 0, message_end_time |-> t,
           chunk_start_offset |-> o, chunk_length |-> 40, message_index_offsets |-> d,
           message_index_length |-> 10 * Len(d), compression |-> StrEmpty,
           compressed_size |-> 9, uncompressed_size |-> 9] :
             t \in Times, o \in Offsets, d \in PerChannel}
    \cup {[type |-> "AttachmentIndex", offset |-> o, length |-> 40, log_time |-> t,
           create_time |-> PublishTime, data_size |-> 1, name |-> n,
           media_type |-> StrEmpty] : o \in Offsets, t \in Times, n \in Names}
    \cup {[type |-> "Statistics", message_count |-> PerChannelSum(d),
           schema_count |-> MaxSchemas, channel_count |-> Len(d),
           attachment_count |-> a, metadata_count |-> 0, chunk_count |-> 1,
           message_start_time |-> 0, message_end_time |-> t,
           channel_message_counts |-> d] :
             a \in 0..MaxAttachments, t \in Times, d \in PerChannel \ {<<>>}}
    \cup {[type |-> "Statistics", message_count |-> 0,
           schema_count |-> 0, channel_count |-> 0,
           attachment_count |-> a, metadata_count |-> 0, chunk_count |-> 0,
           message_start_time |-> 0, message_end_time |-> 0,
           channel_message_counts |-> <<>>] : a \in 0..MaxAttachments}
    \cup {[type |-> "MetadataIndex", offset |-> o, length |-> 40, name |-> n] :
             o \in Offsets, n \in Names}
    \cup {[type |-> "SummaryOffset", group_opcode |-> g, group_start |-> o,
           group_length |-> 40] : g \in {SCHEMA, STATISTICS}, o \in Offsets}

\* what next() on the generator g leaves in the stream's state
read_back(x, n) ==
    [x EXCEPT !.phase = "read", !.out = IF n.err = "" THEN <<n.rec>> ELSE <<>>,
              !.err = n.err]

InitCodec ==
    /\ w = Writer_init(DefaultOptions)
    /\ calls = <<>>
    /\ rd = ReaderIdle
    /\ cx = CodecIdle

WriteRecord ==
    /\ cx.phase = "idle"
    /\ \E r \in DataRecords \cup SummaryRecords :
          cx' = [CodecIdle EXCEPT !.phase = "written", !.record = r,
                                  !.bytes = McapRecord_write(r)]
    /\ UNCHANGED <<w, calls, rd>>

ReadRecord ==
    /\ cx.phase = "written"
    /\ cx' = read_back(cx, next_record(records(cx.bytes, 0,
                 [StreamReaderDefaults EXCEPT !.skip_magic = TRUE, !.emit_chunks = TRUE])))
    /\ UNCHANGED <<w, calls, rd>>

NextCodec == WriteRecord \/ ReadRecord
SpecCodec == InitCodec /\ [][NextCodec]_vars

(***************************************************************************)
(* Reading a written file back, for stating properties of its bytes.       *)
(***************************************************************************)
\* the frames [opcode, offset, length] of the records at the top level of
\* the file b, from the record at offset p up to the Footer
RECURSIVE Frames(_, _, _)
Frames(b, p, acc) ==
    IF p + 9 > Len(b) THEN acc
    ELSE LET f == [opcode |-> b[p + 1], offset |-> p,
                   length |-> FromLE(SubSeq(b, p + 2, p + 9))]
         IN IF f.opcode = FOOTER THEN Append(acc, f)
            ELSE Frames(b, p + 9 + f.length, Append(acc, f))

SelectFrames(b, opcode) == SelectSeq(Frames(b, MAGIC_SIZE, <<>>), LAMBDA f : f.opcode = opcode)

\* the ChunkIndex records of the file's summary
FileChunkIndexes(b) ==
    LET fs == SelectFrames(b, CHUNK_INDEX)
    IN [i \in 1..Len(fs) |-> ChunkIndex_read(b, fs[i].offset + 9).rec]

\* the log times of the messages inside the Chunk record at frame f
ChunkLogTimes(b, f) ==
    LET inner == breakup_chunk(Chunk_read(b, f.offset + 9).rec, FALSE).out
    IN {inner[i].log_time : i \in {j \in 1..Len(inner) : inner[j].type = "Message"}}

SetMin(S) == CHOOSE x \in S : \A y \in S : x <= y
SetMax(S) == CHOOSE x \in S : \A y \in S : x >= y

Finished == w.phase = "finished"
MessageCalls == SelectSeq(calls, LAMBDA c : c.op = "add_message")
CountCalls(op) == Len(SelectSeq(calls, LAMBDA c : c.op = op))
\* some call of the kind op was made between two add_message calls
Interleaved(op) ==
    \E i, j, k \in 1..Len(calls) :
        /\ i < j /\ j < k
        /\ calls[i].op = "add_message" /\ calls[j].op = op /\ calls[k].op = "add_message"

(***************************************************************************)
(* Unknown records.  A record with an opcode that no record type has is    *)
(* put into the data section of a written file, in front of one of its     *)
(* records, and the file is walked by StreamReader.records.                *)
(***************************************************************************)
\* an opcode outside opcode.py
UnknownOpcode == 128
\* the longest payload of the record put in
MaxPayload == 10
\* the fill bytes of its payload
Fill == {0, 255}

\* the offsets of the records of the data section of b after the Header,
\* DataEnd's included
DataSectionOffsets(b) ==
    LET fs == Frames(b, MAGIC_SIZE, <<>>)
    IN {fs[i].offset : i \in {j \in 2..Len(fs) :
                                 \A k \in 1..(j - 1) : fs[k].opcode # DATA_END}}

\* the bytes b with the record of opcode op and the payload put in at p
Inserted(b, p, op, payload) ==
    SubSeq(b, 1, p) \o Record(op, payload) \o SubSeq(b, p + 1, Len(b))

\* what running the generator g to its end leaves in the stream's state
walked(x, g) == [x EXCEPT !.phase = "walked", !.out = g.out, !.err = g.err]

\* the writer options of the files that are walked
SkipOptions == {DefaultOptions, [DefaultOptions EXCEPT !.use_chunking = FALSE]}

InitSkip ==
    /\ \E o \in SkipOptions, times \in MessageTimes :
          /\ w = WriteFile(o, times).w
          /\ calls = WriteFile(o, times).calls
    /\ rd = ReaderIdle
    /\ cx = CodecIdle

InsertUnknown ==
    /\ cx.phase = "idle"
    /\ \E p \in DataSectionOffsets(w.stream), n \in 0..MaxPayload, v \in Fill :
          cx' = [CodecIdle EXCEPT
                    !.phase = "inserted", !.position = p,
                    !.record = [type |-> "Unknown", opcode |-> UnknownOpcode,
                                payload |-> [i \in 1..n |-> v]],
                    !.bytes = Inserted(w.stream, p, UnknownOpcode, [i \in 1..n |-> v])]
    /\ UNCHANGED <<w, calls, rd>>

Walk ==
    /\ cx.phase = "inserted"
    /\ cx' = walked(cx, records(cx.bytes, 0, StreamReaderDefaults))
    /\ UNCHANGED <<w, calls, rd>>

NextSkip == InsertUnknown \/ Walk
SpecSkip == InitSkip /\ [][NextSkip]_vars

(***************************************************************************)
(* CRC validation.  A written file is read as it is, or after              *)
(* produce_corrupted_mcap (tests/test_read_crc_validation.py) has raised   *)
(* the uncompressed_crc of its first Chunk, or the data_section_crc of its *)
(* DataEnd, by one; the reader is a StreamReader, a NonSeekingReader or a  *)
(* SeekingReader, with or without validate_crcs.                           *)
(***************************************************************************)
\* the loop of produce_corrupted_mcap over the records recs of the file:
\* every record is written again, the first one to corrupt changed
RECURSIVE corrupted_loop(_, _, _, _, _)
corrupted_loop(recs, i, to_corrupt, corrupted, acc) ==
    IF i > Len(recs)
    THEN [bytes |-> acc \o MCAP0_MAGIC,
          err |-> IF corrupted THEN "" ELSE "AssertionError"]
    ELSE IF ~corrupted /\ to_corrupt = "chunk" /\ recs[i].type = "Chunk"
            /\ recs[i].uncompressed_crc # 0
    THEN corrupted_loop(recs, i + 1, to_corrupt, TRUE,
             acc \o McapRecord_write([recs[i] EXCEPT !.uncompressed_crc = @ + 1]))
    ELSE IF ~corrupted /\ to_corrupt = "data_end" /\ recs[i].type = "DataEnd"
            /\ recs[i].data_section_crc # 0
    THEN corrupted_loop(recs, i + 1, to_corrupt, TRUE,
             acc \o McapRecord_write([recs[i] EXCEPT !.data_section_crc = @ + 1]))
    ELSE corrupted_loop(recs, i + 1, to_corrupt, corrupted,
                        acc \o McapRecord_write(recs[i]))

\* produce_corrupted_mcap on the file b
produce_corrupted_mcap(b, to_corrupt) ==
    corrupted_loop(records(b, 0, [StreamReaderDefaults EXCEPT !.emit_chunks = TRUE]).out,
                   1, to_corrupt, FALSE, MCAP0_MAGIC)

\* the writer options of the files whose CRCs are validated
CrcOptions ==
    {DefaultOptions,
     [DefaultOptions EXCEPT !.chunk_size = 0],
     [DefaultOptions EXCEPT !.index_chunk = FALSE],
     [DefaultOptions EXCEPT !.enable_crcs = FALSE],
     [DefaultOptions EXCEPT !.enable_data_crcs = TRUE],
     [DefaultOptions EXCEPT !.use_chunking = FALSE, !.enable_data_crcs = TRUE],
     [DefaultOptions EXCEPT !.index_attachment = FALSE, !.index_chunk = FALSE,
                            !.index_message = FALSE, !.index_metadata = FALSE,
                            !.repeat_channels = FALSE, !.repeat_schemas = FALSE,
                            !.use_statistics = FALSE, !.use_summary_offsets = FALSE]}

\* the arguments of StreamReader.__init__
StreamReaderOptions ==
    [skip_magic : BOOLEAN, emit_chunks : BOOLEAN, validate_crcs : BOOLEAN]

\* the readers' arguments: every message is asked for
CrcQueries ==
    {[DefaultQuery EXCEPT !.log_time_order = l, !.validate_crcs = v] : l, v \in BOOLEAN}

InitCrc ==
    /\ \E o \in CrcOptions, times \in MessageTimes :
          /\ w = WriteFile(o, times).w
          /\ calls = WriteFile(o, times).calls
    /\ rd = ReaderIdle
    /\ cx = CodecIdle

\* the file is read as it was written
KeepIntact ==
    /\ cx.phase = "idle"
    /\ cx' = [CodecIdle EXCEPT !.phase = "intact", !.bytes = w.stream]
    /\ UNCHANGED <<w, calls, rd>>

Corrupt ==
    /\ cx.phase = "idle"
    /\ \E to_corrupt \in {"chunk", "data_end"} :
          LET c == produce_corrupted_mcap(w.stream, to_corrupt)
          IN /\ c.err = ""
             /\ cx' = [CodecIdle EXCEPT !.phase = "corrupted", !.bytes = c.bytes,
                                        !.out = <<to_corrupt>>]
    /\ UNCHANGED <<w, calls, rd>>

\* list(StreamReader(stream, **o).records); with skip_magic the stream
\* stands behind the magic
ReadStream ==
    /\ cx.phase \in {"intact", "corrupted"}
    /\ rd.phase = "idle"
    /\ \E o \in StreamReaderOptions :
          LET g == records(cx.bytes, IF o.skip_magic THEN MAGIC_SIZE ELSE 0, o)
          IN rd' = Ended([ReaderIdle EXCEPT !.reader = "StreamReader",
                                            !.query = o, !.out = g.out], g.err)
    /\ UNCHANGED <<w, calls, cx>>

\* list(NonSeekingReader(stream, validate_crcs).iter_messages(log_time_order))
ReadNonSeeking ==
    /\ cx.phase \in {"intact", "corrupted"}
    /\ rd.phase = "idle"
    /\ \E q \in CrcQueries :
          LET n == NonSeekingReader_iter_messages(cx.bytes, q)
          IN rd' = Ended([ReaderIdle EXCEPT !.reader = "NonSeekingReader",
                                            !.query = q, !.out = n.out], n.err)
    /\ UNCHANGED <<w, calls, cx>>

\* list(SeekingReader(stream, validate_crcs).iter_messages(log_time_order))
ReadSeeking ==
    /\ cx.phase \in {"intact", "corrupted"}
    /\ rd.phase = "idle"
    /\ \E q \in CrcQueries : rd' = SeekingReader_list(cx.bytes, q)
    /\ UNCHANGED <<w, calls, cx>>

NextCrc == KeepIntact \/ Corrupt \/ ReadStream \/ ReadNonSeeking \/ ReadSeeking
SpecCrc == InitCrc /\ [][NextCrc]_vars

(***************************************************************************)
(* The record size limit.  A written file is walked by a StreamReader made *)
(* with the keyword arguments kwargs, as test_record_size_limit            *)
(* (tests/test_reader.py) makes it with record_size_limit.                 *)
(***************************************************************************)
\* list(StreamReader(stream, **kwargs).records): __init__ takes skip_magic,
\* emit_chunks and validate_crcs, and Python raises TypeError for a keyword
\* argument that a function does not take
StreamReader_records(b, kwargs) ==
    IF ~(DOMAIN kwargs \subseteq DOMAIN StreamReaderDefaults)
    THEN [out |-> <<>>, err |-> "TypeError", p |-> 0]
    ELSE records(b, 0, [k \in DOMAIN StreamReaderDefaults |->
                           IF k \in DOMAIN kwargs THEN kwargs[k]
                           ELSE StreamReaderDefaults[k]])

\* the limits that test_record_size_limit passes
RecordSizeLimits == {10, 100}

\* the keyword arguments of the StreamReader: none, a limit, or validate_crcs
LimitKwargs ==
    {<<>>, [validate_crcs |-> TRUE]}
    \cup {[record_size_limit |-> l] : l \in RecordSizeLimits}

ReadLimited ==
    /\ rd.phase = "idle"
    /\ \E kwargs \in LimitKwargs :
          LET g == StreamReader_records(w.stream, kwargs)
          IN rd' = Ended([ReaderIdle EXCEPT !.reader = "StreamReader",
                                            !.query = kwargs, !.out = g.out], g.err)
    /\ UNCHANGED <<w, calls, cx>>

NextLimit == ReadLimited
SpecLimit == InitSkip /\ [][NextLimit]_vars

(***************************************************************************)
(* The Writer's methods in any order.  The methods of writer.py test no    *)
(* state of the Writer and no id they are given, so every method can be    *)
(* called at any time, a channel with a schema_id that no register_schema  *)
(* has returned, and a message with a channel_id that no register_channel  *)
(* has returned.                                                           *)
(***************************************************************************)
\* the longest sequence of calls
MaxAnyCalls == 4

\* the calls that can be made on the writer x
WriterCalls(x) ==
    {[op |-> "start"], [op |-> "register_schema"], [op |-> "add_attachment"],
     [op |-> "add_metadata"], [op |-> "finish"],
     [op |-> "add_message", channel_id |-> 1, log_time |-> 0,
      sequence |-> x.statistics.message_count]}
    \cup {[op |-> "register_channel", schema_id |-> i] : i \in 0..MaxSchemas}

\* the call c made on the writer x
Call(x, c) ==
    CASE c.op = "start" -> start(x, StrEmpty, Library)
      [] c.op = "register_schema" -> register_schema(x, SchemaName, StrEmpty, SchemaData)
      [] c.op = "register_channel" ->
            register_channel(x, StrA, MessageEncoding, c.schema_id, <<>>)
      [] c.op = "add_message" ->
            add_message(x, c.channel_id, c.log_time, <<>>, PublishTime, c.sequence)
      [] c.op = "add_attachment" ->
            add_attachment(x, 1, 2, AttachmentName, StrEmpty, AttachmentData)
      [] c.op = "add_metadata" -> add_metadata(x, MetadataName, MetadataMap)
      [] c.op = "finish" -> finish(x)

\* the writer options of the writers that are called in any order
AnyOptions == {DefaultOptions, [DefaultOptions EXCEPT !.use_chunking = FALSE]}

InitAny ==
    /\ \E o \in AnyOptions : w = Writer_init(o)
    /\ calls = <<>>
    /\ rd = ReaderIdle
    /\ cx = CodecIdle

CallAny ==
    /\ Len(calls) < MaxAnyCalls
    /\ \E c \in WriterCalls(w) :
          /\ w' = Call(w, c)
          /\ calls' = Append(calls, c)
    /\ UNCHANGED <<rd, cx>>

NextAny == CallAny
SpecAny == InitAny /\ [][NextAny]_vars

(***************************************************************************)
(* The queries of a NonSeekingReader.  One NonSeekingReader is made on a   *)
(* written file; get_header and get_summary are called on it, and the      *)
(* generators that iter_messages, iter_attachments and iter_metadata       *)
(* return are made and, at any later time, run to their end by list().     *)
(* position is the offset at which the reader's stream stands.             *)
(***************************************************************************)
\* the most queries started on one reader
MaxQueries == 3
\* the most generators that wait to be run
MaxGenerators == 2

\* NonSeekingReader.__init__
NonSeekingReader_init ==
    [reader |-> "NonSeekingReader", phase |-> "made", spent |-> FALSE, position |-> 0,
     generators |-> <<>>, started |-> 0, query |-> "", out |-> <<>>, err |-> ""]

\* a query is started: it has yielded and raised nothing yet
Started(r, query) ==
    [r EXCEPT !.started = @ + 1, !.query = query, !.out = <<>>, !.err = ""]

\* as check_spent, without the test of _spent
check_spent_raise_never(r) == [r EXCEPT !.spent = TRUE]

\* NonSeekingReader._check_spent
check_spent(r) ==
    IF r.spent THEN [r EXCEPT !.err = "RuntimeError"] ELSE [r EXCEPT !.spent = TRUE]

\* the query has read the stream up to p, yielded out and raised err
Consumed(r, p, out, err) == [r EXCEPT !.position = p, !.out = out, !.err = err]

\* get_header after _check_spent: next() on the records g, whose first
\* record has the header h
get_header_next(r, g, h) ==
    IF r.err # "" THEN r
    ELSE IF Len(g.out) = 0
    THEN Consumed(r, g.p, <<>>, IF g.err # "" THEN g.err ELSE "StopIteration")
    ELSE IF g.out[1].type # "Header" THEN Consumed(r, h.p + h.length, <<>>, "McapError")
    ELSE Consumed(r, h.p + h.length, <<g.out[1]>>, "")

\* NonSeekingReader.get_header on the stream of the bytes b
NonSeekingReader_get_header(r, b) ==
    get_header_next(check_spent(Started(r, "get_header")),
                    records(b, r.position, StreamReaderDefaults),
                    read_header(b, r.position + MAGIC_SIZE))

\* get_summary after _check_spent: _read_summary_from_stream_reader returns
\* at the Footer, before the closing magic is read
get_summary_read(r, g, s) ==
    IF r.err # "" THEN r
    ELSE Consumed(r, IF g.err = "" THEN g.p - MAGIC_SIZE ELSE g.p,
                  IF s.err = "" THEN <<s.summary>> ELSE <<>>, s.err)

\* NonSeekingReader.get_summary
get_summary_records(r, g) == get_summary_read(r, g, read_summary_from_stream_reader(g))
NonSeekingReader_get_summary(r, b) ==
    get_summary_records(check_spent(Started(r, "get_summary")),
                        records(b, r.position, StreamReaderDefaults))

\* NonSeekingReader.iter_attachments and iter_metadata on the records g:
\* the records of the type, up to the exception that ends g
iter_records_of(g, type) ==
    [out |-> SelectSeq(g.out, LAMBDA record : record.type = type), err |-> g.err]

\* a generator run to its end after _check_spent, n being what it yields
\* when it reads the records g
generator_read(r, g, n) == IF r.err # "" THEN r ELSE Consumed(r, g.p, n.out, n.err)

\* list() on the generator of the query on the records g
generator_records(r, g, query) ==
    generator_read(r, g,
        IF query = "iter_attachments" THEN iter_records_of(g, "Attachment")
        ELSE IF query = "iter_metadata" THEN iter_records_of(g, "Metadata")
        ELSE iter_messages_sorted(iter_messages_of(g, DefaultQuery), DefaultQuery))

\* list() on a generator of the NonSeekingReader: its body runs from
\* _check_spent on
NonSeekingReader_list(r, b, query) ==
    generator_records(check_spent(Started(r, query)),
                      records(b, r.position, StreamReaderDefaults), query)

\* the methods of NonSeekingReader that return a generator
GeneratorQueries == {"iter_messages", "iter_attachments", "iter_metadata"}

InitSpent ==
    /\ \E o \in SkipOptions, times \in MessageTimes :
          /\ w = WriteFile(o, times).w
          /\ calls = WriteFile(o, times).calls
    /\ rd = NonSeekingReader_init
    /\ cx = CodecIdle

GetHeader ==
    /\ rd.started < MaxQueries
    /\ rd' = NonSeekingReader_get_header(rd, w.stream)
    /\ UNCHANGED <<w, calls, cx>>

GetSummary ==
    /\ rd.started < MaxQueries
    /\ rd' = NonSeekingReader_get_summary(rd, w.stream)
    /\ UNCHANGED <<w, calls, cx>>

\* a call of iter_messages, iter_attachments or iter_metadata: nothing of
\* the method's body runs before the generator is asked for its first item
MakeGenerator ==
    /\ Len(rd.generators) < MaxGenerators
    /\ \E query \in GeneratorQueries : rd' = [rd EXCEPT !.generators = Append(@, query)]
    /\ UNCHANGED <<w, calls, cx>>

RunGenerator ==
    /\ rd.started < MaxQueries
    /\ Len(rd.generators) > 0
    /\ rd' = NonSeekingReader_list([rd EXCEPT !.generators = Tail(@)], w.stream,
                                   Head(rd.generators))
    /\ UNCHANGED <<w, calls, cx>>

NextSpent == GetHeader \/ GetSummary \/ MakeGenerator \/ RunGenerator
SpecSpent == InitSpent /\ [][NextSpent]_vars

(***************************************************************************)
(* Attachments and metadata.  A file is written with attachments and       *)
(* metadata records between its messages, as write_no_summary_mcap         *)
(* (tests/test_reader.py) writes one, and its attachments or its metadata  *)
(* are listed by a SeekingReader or by a NonSeekingReader.                 *)
(***************************************************************************)
\* the most attachments, and the most metadata records, of a file
MaxIndexed == 2

\* the loop of SeekingReader.iter_attachments and iter_metadata over the
\* indexes of the summary: the stream is put at the index's offset and the
\* record n is the next one of a StreamReader with skip_magic
RECURSIVE iter_indexed_loop(_, _, _, _, _)
iter_indexed_record(b, indexes, i, type, out, n) ==
    IF n.err # "" THEN [out |-> out, err |-> n.err]
    ELSE IF n.rec.type # type THEN [out |-> out, err |-> "McapError"]
    ELSE iter_indexed_loop(b, indexes, i + 1, type, Append(out, n.rec))
iter_indexed_loop(b, indexes, i, type, out) ==
    IF i > Len(indexes) THEN [out |-> out, err |-> ""]
    ELSE iter_indexed_record(b, indexes, i, type, out,
             next_record(records(b, indexes[i].offset,
                                 [StreamReaderDefaults EXCEPT !.skip_magic = TRUE])))

\* SeekingReader.iter_attachments and iter_metadata, with the summary s:
\* without a summary a NonSeekingReader reads the stream from its start
iter_records_summary(b, type, s) ==
    IF s.err # "" THEN [out |-> <<>>, err |-> s.err]
    ELSE IF s.summary.type = "None"
    THEN iter_records_of(records(b, 0, StreamReaderDefaults), type)
    ELSE iter_indexed_loop(b, IF type = "Attachment" THEN s.summary.attachment_indexes
                              ELSE s.summary.metadata_indexes, 1, type, <<>>)

\* list(SeekingReader(b).iter_attachments()), or iter_metadata()
SeekingReader_iter_records(b, type) == iter_records_summary(b, type, get_summary(b))

\* list(NonSeekingReader(b).iter_attachments()), or iter_metadata()
NonSeekingReader_iter_records(b, type) ==
    iter_records_of(records(b, 0, StreamReaderDefaults), type)

\* the k-th to the n-th attachment, told apart by their log_time
RECURSIVE add_attachments(_, _, _)
add_attachments(x, k, n) ==
    IF k > n THEN x
    ELSE add_attachments(add_attachment(x, 1, k, AttachmentName, StrEmpty, AttachmentData),
                         k + 1, n)

\* the k-th to the n-th metadata record, told apart by their name
RECURSIVE add_metadatas(_, _, _)
add_metadatas(x, k, n) ==
    IF k > n THEN x
    ELSE add_metadatas(add_metadata(x, MetadataName \o <<k>>, MetadataMap), k + 1, n)

\* start, the schema and the channels, the first message, na attachments,
\* nm metadata records, the other messages, finish
WriteIndexedFile(o, na, nm, times) ==
    LET x0 == start(Writer_init(o), StrEmpty, Library)
        x1 == register_schema(x0, SchemaName, StrEmpty, SchemaData)
        x2 == add_messages(register_channels(x1, 1),
                           SubSeq(times, 1, Min(1, Len(times))), 1)
        x3 == add_metadatas(add_attachments(x2, 1, na), 1, nm)
    IN [w |-> finish(add_messages(x3, times, 2)),
        calls |-> <<[op |-> "start"], [op |-> "register_schema"]>>
                  \o [n \in 1..MaxChannels |-> [op |-> "register_channel"]]
                  \o [k \in 1..Min(1, Len(times)) |->
                        [op |-> "add_message", channel_id |-> ChannelOf(k),
                         log_time |-> times[k], sequence |-> k - 1]]
                  \o [k \in 1..na |-> [op |-> "add_attachment"]]
                  \o [k \in 1..nm |-> [op |-> "add_metadata"]]
                  \o [k \in 1..(Len(times) - 1) |->
                        [op |-> "add_message", channel_id |-> ChannelOf(k + 1),
                         log_time |-> times[k + 1], sequence |-> k]]
                  \o <<[op |-> "finish"]>>]

\* the writer options of the files whose attachments and metadata are listed
IndexedOptions ==
    {DefaultOptions,
     [DefaultOptions EXCEPT !.use_chunking = FALSE],
     [DefaultOptions EXCEPT !.index_attachment = FALSE],
     [DefaultOptions EXCEPT !.index_metadata = FALSE],
     [DefaultOptions EXCEPT !.use_summary_offsets = FALSE, !.use_statistics = FALSE],
     [DefaultOptions EXCEPT !.index_attachment = FALSE, !.index_chunk = FALSE,
                            !.index_message = FALSE, !.index_metadata = FALSE,
                            !.repeat_channels = FALSE, !.repeat_schemas = FALSE,
                            !.use_chunking = FALSE, !.use_statistics = FALSE,
                            !.use_summary_offsets = FALSE]}

\* the kinds of record that are listed
IndexedTypes == {"Attachment", "Metadata"}

InitIndexed ==
    /\ \E o \in IndexedOptions, na, nm \in 0..MaxIndexed,
          times \in {t \in MessageTimes : Len(t) <= 2} :
          /\ w = WriteIndexedFile(o, na, nm, times).w
          /\ calls = WriteIndexedFile(o, na, nm, times).calls
    /\ rd = ReaderIdle
    /\ cx = CodecIdle

SeekingIterRecords ==
    /\ rd.phase = "idle"
    /\ \E type \in IndexedTypes :
          LET n == SeekingReader_iter_records(w.stream, type)
          IN rd' = Ended([ReaderIdle EXCEPT !.reader = "SeekingReader",
                                            !.query = type, !.out = n.out], n.err)
    /\ UNCHANGED <<w, calls, cx>>

NonSeekingIterRecords ==
    /\ rd.phase = "idle"
    /\ \E type \in IndexedTypes :
          LET n == NonSeekingReader_iter_records(w.stream, type)
          IN rd' = Ended([ReaderIdle EXCEPT !.reader = "NonSeekingReader",
                                            !.query = type, !.out = n.out], n.err)
    /\ UNCHANGED <<w, calls, cx>>

NextIndexed == SeekingIterRecords \/ NonSeekingIterRecords
SpecIndexed == InitIndexed /\ [][NextIndexed]_vars

(***************************************************************************)
(* Short reads.  A ReadDataStream over a BytesIO of a few bytes is read    *)
(* with read(n), read1, read2, read4, read8 and read_prefixed_string, one  *)
(* call after the other, each from where the one before it stopped.        *)
(***************************************************************************)
\* the longest source
MaxSource == 6
\* the longest read that is asked for
MaxRead == 3

\* the bytes of a source: a 4-byte length of 0, 1 or 2 can be followed by
\* fewer bytes than it tells, by as many, or by more
SourceBytes == {0, 1, 2}
Sources == UNION {[1..n -> SourceBytes] : n \in 0..MaxSource}

\* the methods of ReadDataStream and their argument
ReadCalls ==
    {[method |-> "read", length |-> n] : n \in 0..MaxRead}
    \cup {[method |-> "read" \o s, length |-> n] :
             <<s, n>> \in {<<"1", 1>>, <<"2", 2>>, <<"4", 4>>, <<"8", 8>>}}
    \cup {[method |-> "read_prefixed_string", length |-> 4]}

\* the call c on the stream over b at the offset p
ReadDataStream_call(b, p, c) ==
    IF c.method = "read" THEN read(b, p, c.length)
    ELSE IF c.method = "read_prefixed_string" THEN readPrefixed(b, p, 4)
    ELSE readInt(b, p, c.length)

\* the stream after the call c, which started at the offset p and gave r
called(x, p, c, r) ==
    [x EXCEPT !.phase = "read", !.record = [call |-> c, start |-> p],
              !.position = r.p, !.out = IF r.err = "" THEN <<r.v>> ELSE <<>>,
              !.err = r.err]

InitShort ==
    /\ w = Writer_init(DefaultOptions)
    /\ calls = <<>>
    /\ rd = ReaderIdle
    /\ \E b \in Sources : cx = [CodecIdle EXCEPT !.bytes = b]

ReadBytes ==
    /\ cx.err = ""
    /\ \E n \in 0..MaxRead :
          LET c == [method |-> "read", length |-> n]
          IN cx' = called(cx, cx.position, c, ReadDataStream_call(cx.bytes, cx.position, c))
    /\ UNCHANGED <<w, calls, rd>>

ReadInteger ==
    /\ cx.err = ""
    /\ \E c \in {r \in ReadCalls : r.method \in {"read1", "read2", "read4", "read8"}} :
          cx' = called(cx, cx.position, c, ReadDataStream_call(cx.bytes, cx.position, c))
    /\ UNCHANGED <<w, calls, rd>>

ReadPrefixedString ==
    /\ cx.err = ""
    /\ LET c == [method |-> "read_prefixed_string", length |-> 4]
       IN cx' = called(cx, cx.position, c, ReadDataStream_call(cx.bytes, cx.position, c))
    /\ UNCHANGED <<w, calls, rd>>

NextShort == ReadBytes \/ ReadInteger \/ ReadPrefixedString
SpecShort == InitShort /\ [][NextShort]_vars

(***************************************************************************)
(* Append mode.  Writer.open_append is called by tests/                    *)
(* test_writer_append.py and examples/raw/append.py; writer.py does not    *)
(* define it, so open_append follows the specification's description of    *)
(* it (4.5.4 Append mode).  The methods called on the reopened writer are  *)
(* those of writer.py.  cx keeps the bytes of the file as they were before *)
(* open_append.                                                            *)
(***************************************************************************)
\* the largest number of calls on the reopened writer, finish apart
MaxAppendCalls == 3

\* a record read from a file, as the record the Writer keeps
Fields(rec) == [k \in DOMAIN rec \ {"type"} |-> rec[k]]

\* the entries of the dict d with the ids 1..Len(d), in the order of their ids
ById(d) == [i \in 1..Len(d) |-> Fields(DictGet(d, i))]

\* the length of a DataEnd record
DATA_END_SIZE == Len(DataEnd_write([data_section_crc |-> 0]))

\* open_append, after the summary s is parsed: the writer's tables take the
\* schemas and channels with their ids, the statistics and the indexes; the
\* file is cut where its DataEnd record starts, so that the summary, the
\* footer and the DataEnd that closes the data section are written anew
\* (test_append_crc_handling finds one DataEnd, with another crc than the
\* original's); a nonzero DataEnd crc is computed again from the data
\* section that stays; use_statistics follows the Statistics record
open_append_load(b, s, data_end_offset, data_end) ==
    [Writer_init([DefaultOptions EXCEPT
                     !.use_statistics = (s.statistics # None),
                     !.enable_data_crcs = (data_end.data_section_crc # 0)])
       EXCEPT !.phase = "started",
              !.stream = SubSeq(b, 1, data_end_offset),
              !.schemas = ById(s.schemas),
              !.channels = ById(s.channels),
              !.statistics = IF s.statistics # None THEN Fields(s.statistics) ELSE @,
              !.chunk_indices = [i \in 1..Len(s.chunk_indexes) |-> Fields(s.chunk_indexes[i])],
              !.attachment_indexes =
                  [i \in 1..Len(s.attachment_indexes) |-> Fields(s.attachment_indexes[i])],
              !.metadata_indexes =
                  [i \in 1..Len(s.metadata_indexes) |-> Fields(s.metadata_indexes[i])],
              !.data_section_crc =
                  IF data_end.data_section_crc # 0
                  THEN crc32(SubSeq(b, 1, data_end_offset), 0) ELSE 0]

\* open_append, after the footer is read: a file whose Footer has
\* summary_start = 0 cannot be appended to
open_append_summary(b, footer, g) ==
    IF footer.err # "" THEN [w |-> None, err |-> footer.err]
    ELSE IF footer.rec.summary_start = 0 \/ g.summary = None
    THEN [w |-> None, err |-> "ValueError"]
    ELSE [w |-> open_append_load(b, g.summary,
                    footer.rec.summary_start - DATA_END_SIZE,
                    DataEnd_read(b, footer.rec.summary_start - DATA_END_SIZE + 9).rec),
          err |-> ""]

\* Writer.open_append on the file b
open_append(b) ==
    open_append_summary(b,
        next_record(records(b, Len(b) - (FOOTER_SIZE + MAGIC_SIZE),
                            [StreamReaderDefaults EXCEPT !.skip_magic = TRUE])),
        get_summary(b))

\* the writer options of the files that are reopened: indexed files with
\* and without chunks, Statistics and a data section crc, and a file
\* without a summary
AppendOptions ==
    {[DefaultOptions EXCEPT !.chunk_size = cs, !.enable_data_crcs = dc]
        : cs \in {0, 1024 * 1024}, dc \in BOOLEAN}
    \cup {[DefaultOptions EXCEPT !.use_chunking = FALSE],
          [DefaultOptions EXCEPT !.use_statistics = FALSE],
          [DefaultOptions EXCEPT !.index_attachment = FALSE, !.index_chunk = FALSE,
                                 !.index_message = FALSE, !.index_metadata = FALSE,
                                 !.repeat_channels = FALSE, !.repeat_schemas = FALSE,
                                 !.use_statistics = FALSE,
                                 !.use_summary_offsets = FALSE]}

\* the calls that are made on the reopened writer x: the schema and the
\* first channel of the first session again, the same schema name with
\* other data, the same topic with another message encoding, a new schema
\* name, a new topic, and the add methods
AppendCalls(x) ==
    {[op |-> "add_attachment"], [op |-> "add_metadata"],
     [op |-> "add_message", channel_id |-> 1, log_time |-> MaxTime,
      sequence |-> x.statistics.message_count]}
    \cup {[op |-> "register_schema", name |-> n, encoding |-> StrEmpty, data |-> d]
            : <<n, d>> \in {<<SchemaName, SchemaData>>, <<SchemaName, StrB>>,
                            <<StrB, SchemaData>>}}
    \cup {[op |-> "register_channel", topic |-> t, message_encoding |-> e,
           schema_id |-> 1, metadata |-> <<>>]
            : <<t, e>> \in {<<StrA, MessageEncoding>>, <<StrA, StrZstd>>,
                            <<StrLz4, MessageEncoding>>}}

\* the call c made on the reopened writer x
AppendCall(x, c) ==
    IF c.op = "register_channel"
    THEN register_channel(x, c.topic, c.message_encoding, c.schema_id, c.metadata)
    ELSE IF c.op = "register_schema"
    THEN register_schema(x, c.name, c.encoding, c.data)
    ELSE Call(x, c)

\* the log times of the messages of the first session
AppendTimes == {<<>>, <<1>>, <<2, 0>>}

\* the first session writes no or one attachment and metadata record
InitAppend ==
    /\ \E o \in AppendOptions, n \in 0..1, times \in AppendTimes :
          /\ w = WriteIndexedFile(o, n, n, times).w
          /\ calls = WriteIndexedFile(o, n, n, times).calls
    /\ rd = ReaderIdle
    /\ cx = CodecIdle

OpenAppend ==
    /\ cx.phase = "idle"
    /\ LET r == open_append(w.stream)
       IN /\ w' = IF r.err = "" THEN r.w ELSE w
          /\ cx' = [CodecIdle EXCEPT !.phase = IF r.err = "" THEN "appending" ELSE "raised",
                                     !.bytes = w.stream, !.position = Len(calls) + 1,
                                     !.err = r.err]
    /\ calls' = Append(calls, [op |-> "open_append"])
    /\ UNCHANGED rd

AppendRecord ==
    /\ cx.phase = "appending"
    /\ w.phase = "started"
    /\ Len(calls) < cx.position + MaxAppendCalls
    /\ \E c \in AppendCalls(w) :
          /\ w' = AppendCall(w, c)
          /\ calls' = Append(calls, c)
    /\ UNCHANGED <<rd, cx>>

AppendFinish ==
    /\ cx.phase = "appending"
    /\ w.phase = "started"
    /\ w' = finish(w)
    /\ calls' = Append(calls, [op |-> "finish"])
    /\ UNCHANGED <<rd, cx>>

NextAppend == OpenAppend \/ AppendRecord \/ AppendFinish
SpecAppend == InitAppend /\ [][NextAppend]_vars

(***************************************************************************)
(* SpecQueue: a message queue on its own, as test_message_queue.py drives  *)
(* it.  make_message_queue makes the queue, a number of items are pushed   *)
(* and then popped until the queue is empty.  calls holds the pushed       *)
(* items, rd.message_queue the queue and rd.out the popped items.          *)
(***************************************************************************)
MaxPushes == 4
MaxQueueTime == 2
ChunkOffsets == {100, 200}
ChunkLengths == {0, 100}

\* test_message_queue.py dummy_chunk_index
dummy_chunk_index(start_time, end_time, chunk_offset) ==
    [type |-> "ChunkIndex", message_start_time |-> start_time,
     message_end_time |-> end_time, chunk_start_offset |-> chunk_offset,
     chunk_length |-> 0, message_index_offsets |-> ToDict(<<>>),
     message_index_length |-> 0, compression |-> StrEmpty,
     compressed_size |-> 0, uncompressed_size |-> 0]

\* test_message_queue.py dummy_message_tuple
dummy_message_tuple(time, chunk_offset, message_offset) ==
    MessageTuple(
        <<[type |-> "Schema", id |-> 0, name |-> StrEmpty, encoding |-> StrEmpty,
           data |-> <<>>],
          [type |-> "Channel", id |-> 0, schema_id |-> 0, topic |-> StrEmpty,
           message_encoding |-> StrEmpty, metadata |-> ToDict(<<>>)],
          [type |-> "Message", channel_id |-> 0, sequence |-> 0, log_time |-> time,
           publish_time |-> time, data |-> <<>>]>>,
        chunk_offset, message_offset)

\* the items of push_elements, over small times, offsets and lengths
PushItems ==
    {[dummy_chunk_index(s, e, o) EXCEPT !.chunk_length = l] :
        s \in {1}, e \in 1..MaxQueueTime, o \in ChunkOffsets, l \in ChunkLengths}
    \cup {dummy_message_tuple(t, o, i) :
            t \in 1..MaxQueueTime, o \in ChunkOffsets, i \in 0..1}

InitQueue ==
    /\ w = Writer_init(DefaultOptions)
    /\ calls = <<>>
    /\ cx = CodecIdle
    /\ \E log_time_order \in BOOLEAN, reverse \in BOOLEAN :
          LET m == make_message_queue(log_time_order, reverse)
          IN rd = [ReaderIdle EXCEPT
                      !.query = [DefaultQuery EXCEPT !.log_time_order = log_time_order,
                                                     !.reverse = reverse],
                      !.phase = IF m.err # "" THEN "raised" ELSE "pushing",
                      !.message_queue = m.queue, !.err = m.err]

QueuePush ==
    /\ rd.phase = "pushing"
    /\ Len(calls) < MaxPushes
    /\ \E item \in PushItems :
          /\ rd' = [rd EXCEPT !.message_queue = push(@, item)]
          /\ calls' = Append(calls, item)
    /\ UNCHANGED <<w, cx>>

QueuePop ==
    /\ rd.phase \in {"pushing", "popping"}
    /\ Len(rd.message_queue.q) > 0
    /\ LET p == pop(rd.message_queue)
       IN rd' = [rd EXCEPT !.phase = "popping", !.message_queue = p.queue,
                           !.out = Append(@, p.item)]
    /\ UNCHANGED <<w, calls, cx>>

NextQueue == QueuePush \/ QueuePop

SpecQueue == InitQueue /\ [][NextQueue]_vars

(***************************************************************************)
(* SpecFrame: a StreamReader on bytes that were not written by the Writer. *)
(* The stream holds one record whose length field was set to a declared    *)
(* length, smaller or larger than its payload, and the bytes that follow   *)
(* it; every step is one turn of the while loop of StreamReader.records.   *)
(* cx.record is the header read in the last turn with the offset of its    *)
(* opcode, cx.position the offset at which the stream stands.              *)
(***************************************************************************)
MaxDelta == 2

\* the record r with the length field of its header set to length
Framed(r, length) ==
    LET b == McapRecord_write(r)
    IN write1(b[1]) \o write8(length) \o SubSeq(b, 10, Len(b))

\* the lengths declared for a payload of n bytes
DeclaredLengths(n) == {l \in (n - MaxDelta)..(n + MaxDelta) : l >= 0}

\* the bytes that follow the record in the stream
Trailers == {<<>>, DataEnd_write([data_section_crc |-> 0])}

\* one turn of the while loop of StreamReader.records on a stream that
\* holds the bytes b and stands at p, with skip_magic, emit_chunks and
\* without validate_crcs: the header, the record, the padding and, after a
\* Footer, the magic
records_turn_padding(h, r, pad, m) ==
    IF pad.err # "" THEN [header |-> h, rec |-> None, p |-> pad.p, err |-> pad.err]
    ELSE IF r.rec.type = "Footer"
    THEN [header |-> h, rec |-> r.rec, p |-> m.p, err |-> m.err]
    ELSE [header |-> h, rec |-> r.rec, p |-> pad.p, err |-> ""]

records_turn_record(b, h, r) ==
    IF r.err # "" THEN [header |-> h, rec |-> None, p |-> r.p, err |-> r.err]
    ELSE records_turn_padding(h, r,
             IF h.length - (r.p - h.p) > 0 THEN read(b, r.p, h.length - (r.p - h.p))
             ELSE [v |-> <<>>, p |-> r.p, err |-> ""],
             read_magic(b, IF h.length - (r.p - h.p) > 0
                           THEN read(b, r.p, h.length - (r.p - h.p)).p ELSE r.p))

records_turn(b, p) ==
    LET h == read_header(b, p)
    IN IF h.err # "" THEN [header |-> h, rec |-> None, p |-> h.p, err |-> h.err]
       ELSE records_turn_record(b, h, read_record(b, h.p, h.opcode, h.length))

InitFrame ==
    /\ w = Writer_init(DefaultOptions)
    /\ calls = <<>>
    /\ rd = ReaderIdle
    /\ cx = CodecIdle

WriteFramed ==
    /\ cx.phase = "idle"
    /\ \E r \in DataRecords \cup SummaryRecords, t \in Trailers :
          \E l \in DeclaredLengths(Len(McapRecord_write(r)) - 9) :
             cx' = [CodecIdle EXCEPT !.phase = "written", !.bytes = Framed(r, l) \o t]
    /\ UNCHANGED <<w, calls, rd>>

ReadTurn ==
    /\ cx.phase \in {"written", "read"}
    /\ cx.err = ""
    /\ (cx.out # <<>> => cx.out[Len(cx.out)].type # "Footer")
    /\ LET t == records_turn(cx.bytes, cx.position)
       IN cx' = [cx EXCEPT !.phase = "read",
                           !.record = [opcode |-> t.header.opcode, start |-> cx.position,
                                       length |-> t.header.length],
                           !.position = t.p,
                           !.out = IF t.err = "" /\ t.rec.type # "None"
                                   THEN Append(@, t.rec) ELSE @,
                           !.err = t.err]
    /\ UNCHANGED <<w, calls, rd>>

NextFrame == WriteFramed \/ ReadTurn

SpecFrame == InitFrame /\ [][NextFrame]_vars

\* the Chunk records of the file b
FileChunks(b) ==
    LET fs == SelectFrames(b, CHUNK)
    IN [i \in 1..Len(fs) |-> Chunk_read(b, fs[i].offset + 9).rec]

\* the time bounds of the chunks of b are pairwise disjoint
ChunksDisjoint(b) ==
    LET cs == FileChunks(b)
    IN \A i, j \in 1..Len(cs) :
          i < j => \/ cs[i].message_end_time < cs[j].message_start_time
                   \/ cs[j].message_end_time < cs[i].message_start_time

Reverse(s) == [i \in 1..Len(s) |-> s[Len(s) + 1 - i]]

\* the generator of iter_messages has ended, by return or by an exception
ReadEnded == rd.phase \in {"done", "raised"}
\* iter_messages was called without a topic or a time filter
Unfiltered == rd.query.topics = Nothing /\ rd.query.start_time = Nothing
              /\ rd.query.end_time = Nothing
\* the file was written with chunking, both indexes and the channels and
\* schemas repeated in the summary
FullyIndexed ==
    /\ w.opts.use_chunking /\ w.opts.index_chunk /\ w.opts.index_message
    /\ w.opts.repeat_channels /\ w.opts.repeat_schemas
\* the add_message calls whose log_time passes the time filter of the query
CallsInRange ==
    SelectSeq(MessageCalls, LAMBDA c :
        /\ (rd.query.start_time # Nothing => c.log_time >= rd.query.start_time[1])
        /\ (rd.query.end_time # Nothing => c.log_time < rd.query.end_time[1]))

(***************************************************************************)
(* C1.  Streaming and seeking agree: on a written file whose chunks have   *)
(* pairwise disjoint time bounds, SeekingReader.iter_messages with         *)
(* log_time_order yields the sequence of triples that                      *)
(* NonSeekingReader.iter_messages yields on the same bytes, and ends as it *)
(* ends.                                                                   *)
(***************************************************************************)
C1_StreamingEqualsSeeking ==
    (/\ rd.reader = "SeekingReader" /\ ReadEnded /\ Unfiltered
     /\ rd.query.log_time_order /\ ~rd.query.reverse
     /\ ChunksDisjoint(w.stream))
    => /\ rd.out = NonSeekingReader_iter_messages(w.stream, rd.query).out
       /\ rd.err = NonSeekingReader_iter_messages(w.stream, rd.query).err

C3_ReverseIsExactReverse ==
    (ReadEnded /\ rd.query.log_time_order /\ rd.query.reverse)
    => LET forward == [rd.query EXCEPT !.reverse = FALSE]
           f == IF rd.reader = "SeekingReader"
                THEN SeekingReader_list(w.stream, forward)
                ELSE NonSeekingReader_iter_messages(w.stream, forward)
       IN f.err = "" => (rd.err = "" /\ rd.out = Reverse(f.out))

(***************************************************************************)
(* C4.  Time filter: on a file written with chunking and both indexes,     *)
(* iter_messages(start_time=s, end_time=e) of either reader yields the     *)
(* messages of exactly the add_message calls with s <= log_time < e.       *)
(***************************************************************************)
C4_TimeFilter ==
    (/\ ReadEnded /\ rd.query.topics = Nothing
     /\ w.opts.use_chunking /\ w.opts.index_chunk /\ w.opts.index_message)
    => /\ rd.err = ""
       /\ Len(rd.out) = Len(CallsInRange)
       /\ \A k \in 1..Len(CallsInRange) :
             \E i \in 1..Len(rd.out) :
                /\ rd.out[i][3].sequence = CallsInRange[k].sequence
                /\ rd.out[i][3].log_time = CallsInRange[k].log_time

(***************************************************************************)
(* C5.  Index soundness: in a finished file written with chunking and the  *)
(* CHUNK and MESSAGE indexes, every ChunkIndex of the summary points at    *)
(* the opcode byte of a Chunk record of chunk_length bytes, and every      *)
(* entry c -> offset of its message_index_offsets points at the opcode     *)
(* byte of a MessageIndex record whose channel_id is c and which lies in   *)
(* the message_index_length bytes right after the chunk.                   *)
(***************************************************************************)
ChunkIndexSound(b, ci) ==
    LET o == ci.chunk_start_offset
        chunk_end == o + ci.chunk_length
    IN /\ o + 9 <= Len(b)
       /\ b[o + 1] = CHUNK
       /\ 9 + FromLE(SubSeq(b, o + 2, o + 9)) = ci.chunk_length
       /\ \A i \in 1..Len(ci.message_index_offsets) :
             LET c == ci.message_index_offsets[i][1]
                 m == ci.message_index_offsets[i][2]
             IN /\ m + 11 <= Len(b)
                /\ b[m + 1] = MESSAGE_INDEX
                /\ FromLE(SubSeq(b, m + 10, m + 11)) = c
                /\ chunk_end <= m
                /\ m + 9 + FromLE(SubSeq(b, m + 2, m + 9))
                     <= chunk_end + ci.message_index_length

C5_IndexSoundness ==
    (Finished /\ w.opts.use_chunking /\ w.opts.index_chunk /\ w.opts.index_message)
    => \A i \in 1..Len(FileChunkIndexes(w.stream)) :
          ChunkIndexSound(w.stream, FileChunkIndexes(w.stream)[i])

\* a finished file with a chunk that holds messages of two channels, written
\* with an attachment or a metadata record between two messages
C5_Witness ==
    /\ Finished /\ w.opts.use_chunking /\ w.opts.index_chunk /\ w.opts.index_message
    /\ \E i \in 1..Len(FileChunkIndexes(w.stream)) :
          Len(FileChunkIndexes(w.stream)[i].message_index_offsets) = 2
    /\ (Interleaved("add_attachment") \/ Interleaved("add_metadata"))

(***************************************************************************)
(* C6.  The data_section_crc of DataEnd is the crc32 of all bytes of the   *)
(* file before DataEnd's opcode byte when enable_data_crcs is set, and 0   *)
(* when it is not.                                                         *)
(***************************************************************************)
DataEndFrame == SelectFrames(w.stream, DATA_END)[1]

C6_DataSectionCrc ==
    Finished =>
        DataEnd_read(w.stream, DataEndFrame.offset + 9).rec.data_section_crc
          = IF w.opts.enable_data_crcs
            THEN crc32(SubSeq(w.stream, 1, DataEndFrame.offset), 0)
            ELSE 0

(***************************************************************************)
(* C7.  Chunk time bounds: every Chunk record of a finished file carries   *)
(* the least log_time of its messages as message_start_time and the        *)
(* greatest as message_end_time, and the ChunkIndex that points at it      *)
(* carries the same two values.                                            *)
(***************************************************************************)
C7_ChunkTimeBounds ==
    Finished =>
        LET b == w.stream
            chunks == SelectFrames(b, CHUNK)
            indexes == FileChunkIndexes(b)
        IN /\ \A i \in 1..Len(chunks) :
                 LET chunk == Chunk_read(b, chunks[i].offset + 9).rec
                     times == ChunkLogTimes(b, chunks[i])
                 IN /\ times # {}
                    /\ chunk.message_start_time = SetMin(times)
                    /\ chunk.message_end_time = SetMax(times)
                    /\ w.opts.index_chunk =>
                         \E j \in 1..Len(indexes) :
                            /\ indexes[j].chunk_start_offset = chunks[i].offset
                            /\ indexes[j].message_start_time = SetMin(times)
                            /\ indexes[j].message_end_time = SetMax(times)
           /\ w.opts.index_chunk => Len(indexes) = Len(chunks)

\* a finished file with two chunks and their ChunkIndex records, the first
\* chunk with two messages that are out of order and both later than 0
C7_Witness ==
    /\ Finished /\ w.opts.index_chunk
    /\ Len(SelectFrames(w.stream, CHUNK)) >= 2
    /\ LET f == SelectFrames(w.stream, CHUNK)[1]
           inner == breakup_chunk(Chunk_read(w.stream, f.offset + 9).rec, FALSE).out
           msgs == SelectSeq(inner, LAMBDA r : r.type = "Message")
       IN /\ Len(msgs) = 2
          /\ msgs[1].log_time > msgs[2].log_time
          /\ msgs[2].log_time > 0

(***************************************************************************)
(* C8.  Statistics closure: the Statistics record finish writes has        *)
(* message_count equal to the number of add_message calls and to the sum   *)
(* of channel_message_counts, the least and greatest log_time of all       *)
(* messages as message_start_time and message_end_time (0 and 0 without    *)
(* messages), and the numbers of register_schema, register_channel,        *)
(* add_attachment and add_metadata calls and of Chunk records in the file  *)
(* as its other counts.                                                    *)
(***************************************************************************)
RECURSIVE SumCounts(_)
SumCounts(d) == IF d = <<>> THEN 0 ELSE Head(d)[2] + SumCounts(Tail(d))

CallLogTimes == {MessageCalls[i].log_time : i \in 1..Len(MessageCalls)}

C8_StatisticsClosure ==
    (Finished /\ w.opts.use_statistics) =>
        LET fs == SelectFrames(w.stream, STATISTICS)
            st == w.statistics
        IN /\ Len(fs) = 1
           /\ SubSeq(w.stream, fs[1].offset + 1, fs[1].offset + 9 + fs[1].length)
                = Statistics_write(st)
           /\ st.message_count = Len(MessageCalls)
           /\ st.message_count = SumCounts(st.channel_message_counts)
           /\ \A i \in 1..Len(st.channel_message_counts) :
                 st.channel_message_counts[i][2]
                   = Len(SelectSeq(MessageCalls, LAMBDA c :
                           c.channel_id = st.channel_message_counts[i][1]))
           /\ st.message_start_time
                = IF CallLogTimes = {} THEN 0 ELSE SetMin(CallLogTimes)
           /\ st.message_end_time
                = IF CallLogTimes = {} THEN 0 ELSE SetMax(CallLogTimes)
           /\ st.schema_count = CountCalls("register_schema")
           /\ st.channel_count = CountCalls("register_channel")
           /\ st.attachment_count = CountCalls("add_attachment")
           /\ st.attachment_count = Len(SelectFrames(w.stream, ATTACHMENT))
           /\ st.metadata_count = CountCalls("add_metadata")
           /\ st.metadata_count = Len(SelectFrames(w.stream, METADATA))
           /\ st.chunk_count = Len(SelectFrames(w.stream, CHUNK))

\* a finished file with three messages of two channels, out of order and all
\* later than 0, in more than one chunk
C8_Witness ==
    /\ Finished /\ w.opts.use_statistics
    /\ Len(w.statistics.channel_message_counts) = 2
    /\ Len(MessageCalls) = 3
    /\ MessageCalls[1].log_time > MessageCalls[2].log_time
    /\ 0 \notin CallLogTimes
    /\ w.statistics.chunk_count >= 2

(***************************************************************************)
(* C9.  Round trip: a record of any type that is written by its write      *)
(* method and read back through a StreamReader comes back, without an      *)
(* exception, equal in every field to the record written, the              *)
(* message_count of a Statistics record with several                       *)
(* channel_message_counts included.                                        *)
(***************************************************************************)
C9_RoundTrip ==
    cx.phase = "read"
    => /\ cx.err = ""
       /\ Len(cx.out) = 1
       /\ cx.out[1].type = cx.record.type
       /\ cx.out[1] = cx.record

(***************************************************************************)
(* C10.  Unknown opcode: a file with a record of an unknown opcode put in  *)
(* front of a record of its data section, whatever the length of its       *)
(* payload, is walked by StreamReader.records to the Footer without an     *)
(* exception, and the records yielded are those of the file without it.    *)
(***************************************************************************)
C10_UnknownOpcodeSkipped ==
    cx.phase = "walked"
    => /\ cx.err = ""
       /\ cx.out = records(w.stream, 0, StreamReaderDefaults).out

\* the chunk's uncompressed_crc is set and is not the CRC32 of its
\* uncompressed records
BadChunkCrc(chunk) ==
    /\ chunk.uncompressed_crc # 0
    /\ chunk.uncompressed_crc # crc32(get_chunk_data_stream(chunk, FALSE).data, 0)

\* the sequence numbers of the messages inside the chunk
ChunkSequences(chunk) ==
    LET inner == breakup_chunk(chunk, FALSE).out
    IN {inner[i].sequence : i \in {j \in 1..Len(inner) : inner[j].type = "Message"}}

\* the sequence numbers of the messages that the reader has yielded
YieldedSequences ==
    IF rd.reader = "StreamReader"
    THEN {rd.out[i].sequence : i \in {j \in 1..Len(rd.out) : rd.out[j].type = "Message"}}
    ELSE {rd.out[i][3].sequence : i \in 1..Len(rd.out)}

\* the DataEnd record of b holds no CRC, or the CRC32 of the bytes before it
DataEndCrcGood(b) ==
    LET f == SelectFrames(b, DATA_END)[1]
        crc == DataEnd_read(b, f.offset + 9).rec.data_section_crc
    IN crc = 0 \/ crc = crc32(SubSeq(b, 1, f.offset), 0)

\* a reader that expands chunks has come to its end
ExpandingReadEnded ==
    /\ rd.phase \in {"done", "raised"}
    /\ rd.reader = "StreamReader" => ~rd.query.emit_chunks

\* C11: with validate_crcs, every reader that expands chunks (StreamReader
\* without emit_chunks, NonSeekingReader, SeekingReader with or without a
\* chunk index) raises CRCValidationError and yields no message of a chunk
\* whose nonzero uncompressed_crc is not the CRC32 of its records; without
\* validate_crcs, or when no chunk (and not DataEnd) holds a wrong CRC, no
\* CRCValidationError is raised
C11_ChunkCrcValidated ==
    ExpandingReadEnded =>
        LET chunks == FileChunks(cx.bytes)
            bad == {i \in 1..Len(chunks) : BadChunkCrc(chunks[i])}
        IN /\ (rd.query.validate_crcs /\ bad # {}) =>
                 /\ rd.err = "CRCValidationError"
                 /\ \A i \in bad : ChunkSequences(chunks[i]) \cap YieldedSequences = {}
           /\ (~rd.query.validate_crcs \/ (bad = {} /\ DataEndCrcGood(cx.bytes))) =>
                 rd.err # "CRCValidationError"

\* a StreamReader has come to its end, and no chunk's CRC has stopped it
StreamReadEnded ==
    /\ rd.reader = "StreamReader"
    /\ rd.phase \in {"done", "raised"}
    /\ \/ rd.query.emit_chunks
       \/ \A i \in 1..Len(FileChunks(cx.bytes)) : ~BadChunkCrc(FileChunks(cx.bytes)[i])

\* what the StreamReader yields before DataEnd when it validates nothing
YieldedBeforeDataEnd ==
    LET full == records(cx.bytes, IF rd.query.skip_magic THEN MAGIC_SIZE ELSE 0,
                        [rd.query EXCEPT !.validate_crcs = FALSE]).out
        k == CHOOSE i \in 1..Len(full) : full[i].type = "DataEnd"
    IN SubSeq(full, 1, k - 1)

\* C12: a StreamReader with validate_crcs and without skip_magic raises
\* CRCValidationError at DataEnd, having yielded the records before it,
\* exactly when data_section_crc is nonzero and is not the CRC32 of the
\* bytes from the first byte of MAGIC up to DataEnd's opcode; with
\* skip_magic, without validate_crcs or with data_section_crc = 0 the
\* CRC of DataEnd raises nothing
C12_DataEndCrcValidated ==
    StreamReadEnded =>
        IF rd.query.validate_crcs /\ ~rd.query.skip_magic /\ ~DataEndCrcGood(cx.bytes)
        THEN rd.err = "CRCValidationError" /\ rd.out = YieldedBeforeDataEnd
        ELSE rd.err = ""

\* a validating StreamReader has stopped at a DataEnd whose CRC was raised
C12_Witness ==
    /\ StreamReadEnded
    /\ cx.phase = "corrupted" /\ cx.out = <<"data_end">>
    /\ rd.query.validate_crcs /\ ~rd.query.skip_magic
    /\ rd.err = "CRCValidationError"
    /\ Len(rd.out) > 1

\* the frame of the Footer record of the finished file
FooterFrame == SelectFrames(w.stream, FOOTER)[1]
\* the bytes of the summary section: from the end of DataEnd to the Footer
SummaryBytes ==
    SubSeq(w.stream, DataEndFrame.offset + 9 + DataEndFrame.length + 1, FooterFrame.offset)

\* C13: with enable_crcs the summary_crc of the Footer that finish writes is
\* the CRC32 of the bytes of the summary section (the summary records and
\* the SummaryOffset records), continued over the first 25 bytes of the
\* Footer record as they stand in the file; without enable_crcs it is 0
C13_SummaryCrc ==
    Finished =>
        Footer_read(w.stream, FooterFrame.offset + 9).rec.summary_crc
            = IF w.opts.enable_crcs
              THEN crc32(SubSeq(w.stream, FooterFrame.offset + 1, FooterFrame.offset + 25),
                         crc32(SummaryBytes, 0))
              ELSE 0

\* a file with messages and a summary is finished with enable_crcs
C13_Witness ==
    /\ Finished
    /\ w.opts.enable_crcs
    /\ CountCalls("add_message") > 0
    /\ Len(SummaryBytes) > 0
    /\ Footer_read(w.stream, FooterFrame.offset + 9).rec.summary_crc # 0

\* the offsets of the records of the file whose declared length exceeds l
Oversized(l) ==
    LET fs == Frames(w.stream, MAGIC_SIZE, <<>>)
    IN {fs[i].offset : i \in {j \in 1..Len(fs) : fs[j].length > l}}

\* C14: a StreamReader given record_size_limit = L raises
\* RecordLengthLimitExceeded at the first record whose declared length
\* exceeds L, having yielded the records before it and nothing of the
\* record itself; when no record's length exceeds L the file is read as
\* without a limit
C14_RecordSizeLimit ==
    (/\ rd.reader = "StreamReader"
     /\ rd.phase \in {"done", "raised"}
     /\ "record_size_limit" \in DOMAIN rd.query) =>
        LET over == Oversized(rd.query.record_size_limit)
        IN IF over # {}
           THEN /\ rd.err = "RecordLengthLimitExceeded"
                /\ rd.out = records(SubSeq(w.stream, 1, SetMin(over)), 0,
                                    StreamReaderDefaults).out
           ELSE /\ rd.err = ""
                /\ rd.out = records(w.stream, 0, StreamReaderDefaults).out

\* the methods that the log cs of calls names
Ops(cs) == {cs[i].op : i \in 1..Len(cs)}
\* cs is start, then register and add calls, then finish
Complete(cs) ==
    /\ Len(cs) >= 2
    /\ cs[1].op = "start" /\ cs[Len(cs)].op = "finish"
    /\ \A i \in 2..(Len(cs) - 1) : cs[i].op \notin {"start", "finish"}
\* the state of the Writer, apart from the model's phase
WriterState(x) ==
    <<x.stream, x.record_builder, x.schemas, x.channels, x.chunk_builder,
      x.statistics, x.chunk_indices, x.attachment_indexes, x.metadata_indexes,
      x.summary_offsets, x.data_section_crc>>

\* C16: a call of finish on a Writer that was started and finished writes
\* no byte and changes no state of the Writer
C16_FinishIsTerminal ==
    [][(Complete(calls) /\ calls' = Append(calls, [op |-> "finish"]))
          => WriterState(w') = WriterState(w)]_vars

\* C17: register_schema, register_channel, add_message, add_attachment and
\* add_metadata called before start or after finish, and start called
\* after any other call, leave the output stream, the tables of schemas
\* and channels, the open chunk and the statistics as they were
C17_CallsOutsideStartFinish ==
    [][(/\ Len(calls') = Len(calls) + 1
        /\ \/ /\ calls'[Len(calls')].op \notin {"start", "finish"}
              /\ "start" \notin Ops(calls) \/ "finish" \in Ops(calls)
           \/ /\ calls'[Len(calls')].op = "start"
              /\ calls # <<>>)
          => WriterState(w') = WriterState(w)]_vars

\* the records of the data section of b, the chunks' records in their place
DataSectionRecords(b) ==
    LET full == records(b, 0, StreamReaderDefaults).out
        k == CHOOSE i \in 1..Len(full) : full[i].type = "DataEnd"
    IN SubSeq(full, 1, k - 1)

\* C18: in a file that the Writer has finished, every Message's channel_id
\* is the id of a Channel record that precedes it in the data section, and
\* every Channel's nonzero schema_id is the id of a schema registered with
\* the writer
C18_NoDanglingIds ==
    Complete(calls) =>
        LET recs == DataSectionRecords(w.stream)
        IN \A i \in 1..Len(recs) :
              /\ recs[i].type = "Message" =>
                    \E j \in 1..(i - 1) :
                        recs[j].type = "Channel" /\ recs[j].id = recs[i].channel_id
              /\ recs[i].type = "Channel" =>
                    \/ recs[i].schema_id = 0
                    \/ \E j \in 1..Len(w.schemas) : w.schemas[j].id = recs[i].schema_id

\* n times the opcode op, when the group is enabled
Group(enabled, op, n) == IF enabled THEN [i \in 1..n |-> op] ELSE <<>>
\* how many of the flags are set
CountTrue(flags) == Len(SelectSeq(flags, LAMBDA f : f))
\* the opcodes of the records of the file, from the Header to the Footer
FileOpcodes ==
    LET fs == Frames(w.stream, MAGIC_SIZE, <<>>)
    IN [i \in 1..Len(fs) |-> fs[i].opcode]
\* the opcodes of the summary section that the calls and the options ask for
ExpectedSummary ==
    Group(w.opts.repeat_schemas, SCHEMA, CountCalls("register_schema"))
    \o Group(w.opts.repeat_channels, CHANNEL, CountCalls("register_channel"))
    \o Group(w.opts.use_statistics, STATISTICS, 1)
    \o Group(w.opts.index_chunk, CHUNK_INDEX, Len(SelectFrames(w.stream, CHUNK)))
    \o Group(w.opts.index_attachment, ATTACHMENT_INDEX, CountCalls("add_attachment"))
    \o Group(w.opts.index_metadata, METADATA_INDEX, CountCalls("add_metadata"))
    \o Group(w.opts.use_summary_offsets, SUMMARY_OFFSET,
             CountTrue(<<w.opts.repeat_schemas, w.opts.repeat_channels,
                         w.opts.use_statistics, w.opts.index_chunk,
                         w.opts.index_attachment, w.opts.index_metadata>>))

\* C15: after start, register and add calls and one finish the file is
\* MAGIC, one Header, the records of the data section, one DataEnd, the
\* groups of the summary in the order Schemas, Channels, Statistics,
\* ChunkIndexes, AttachmentIndexes, MetadataIndexes, each when it is
\* enabled, the SummaryOffset records when they are enabled, one Footer
\* and MAGIC; nothing but the summary lies between DataEnd and the Footer
C15_FileLayout ==
    Finished =>
        LET b == w.stream
            ops == FileOpcodes
            k == CHOOSE i \in 1..Len(ops) : ops[i] = DATA_END
        IN /\ SubSeq(b, 1, MAGIC_SIZE) = MCAP0_MAGIC
           /\ SubSeq(b, Len(b) - MAGIC_SIZE + 1, Len(b)) = MCAP0_MAGIC
           /\ FooterFrame.offset + 9 + FooterFrame.length + MAGIC_SIZE = Len(b)
           /\ ops[1] = HEADER /\ ops[Len(ops)] = FOOTER
           /\ \A i \in 2..(k - 1) :
                 ops[i] \in {SCHEMA, CHANNEL, MESSAGE, CHUNK, MESSAGE_INDEX,
                             ATTACHMENT, METADATA}
           /\ Len(SelectSeq(ops, LAMBDA o : o = DATA_END)) = 1
           /\ SubSeq(ops, k + 1, Len(ops) - 1) = ExpectedSummary

\* a file with a chunk, an attachment and a metadata record is finished
\* with every group of the summary enabled
C15_Witness ==
    /\ Finished
    /\ w.opts.repeat_schemas /\ w.opts.repeat_channels /\ w.opts.use_statistics
    /\ w.opts.index_chunk /\ w.opts.index_attachment /\ w.opts.index_metadata
    /\ w.opts.use_summary_offsets
    /\ CountCalls("add_message") > 0
    /\ CountCalls("add_attachment") > 0
    /\ CountCalls("add_metadata") > 0
    /\ CountCalls("register_schema") > 0
    /\ Len(SelectFrames(w.stream, CHUNK)) > 0

\* a query of the NonSeekingReader is started in this step
QueryStarts == rd.reader = "NonSeekingReader" /\ rd'.started = rd.started + 1

C20_SeekingListsAsNonSeeking ==
    (rd.reader = "SeekingReader" /\ rd.phase \in {"done", "raised"}) =>
        /\ rd.out = NonSeekingReader_iter_records(w.stream, rd.query).out
        /\ rd.err = NonSeekingReader_iter_records(w.stream, rd.query).err

\* the bytes that the call of the last read needs: n for read(n), the width
\* for read1, read2, read4 and read8, and for read_prefixed_string the 4
\* bytes of the length and, when they are there, the bytes of the string
Needed ==
    LET c == cx.record.call
        p == cx.record.start
    IN IF c.method # "read_prefixed_string" THEN c.length
       ELSE IF Len(cx.bytes) - p < 4 THEN 4
       ELSE 4 + FromLE(SubSeq(cx.bytes, p + 1, p + 4))

\* C21: read(n), and read1, read2, read4, read8 and read_prefixed_string
\* built on it, raise EndOfFile whenever fewer bytes remain in the source
\* than the call needs, also when some of them remain, and what they
\* return without an exception is made of all the bytes asked for
C21_ShortReadRaises ==
    cx.phase = "read" =>
        LET p == cx.record.start
            remaining == Len(cx.bytes) - p
        IN IF Needed > remaining
           THEN cx.err = "EndOfFile" /\ cx.out = <<>>
           ELSE /\ cx.err = ""
                /\ cx.position = p + Needed
                /\ cx.record.call.method \in {"read", "read_prefixed_string"} =>
                      cx.out = <<SubSeq(cx.bytes, cx.position - (Needed -
                                   (IF cx.record.call.method = "read" THEN 0 ELSE 4)) + 1,
                                   cx.position)>>

\* the fields of the Statistics record of the file b as they are written:
\* message_count, schema_count, channel_count, attachment_count,
\* metadata_count, chunk_count, ...
WrittenStatistics(b) ==
    readFields(b, SelectFrames(b, STATISTICS)[1].offset + 9,
               <<"u8", "u2", "u4", "u4", "u4", "u4", "u8", "u8", "u2u8">>).v

\* the bytes of the records with the opcode op in the file b
RecordsOf(b, op) ==
    LET fs == SelectFrames(b, op)
    IN {SubSeq(b, fs[i].offset + 1, fs[i].offset + 9 + fs[i].length) : i \in 1..Len(fs)}

\* the calls made on the reopened writer
AppendedCalls == SubSeq(calls, cx.position + 1, Len(calls))
Appended_count(op) == Len(SelectSeq(AppendedCalls, LAMBDA c : c.op = op))

\* the messages of the file b in the order of the file
StreamMessages(b) ==
    iter_messages_internal(b, [DefaultQuery EXCEPT !.log_time_order = FALSE])

\* the file was reopened with open_append and finished again
AppendFinished == cx.phase = "appending" /\ w.phase = "finished"

\* the original file is indexed: it has a summary with Statistics, and its
\* messages are in chunks, which its ChunkIndex records find
IndexedOriginal ==
    /\ SelectFrames(cx.bytes, STATISTICS) # <<>>
    /\ SelectFrames(cx.bytes, MESSAGE) = <<>>
    /\ Len(SelectFrames(cx.bytes, CHUNK_INDEX)) = Len(SelectFrames(cx.bytes, CHUNK))

\* C22: after open_append on a finished, indexed file, appended calls and
\* finish, the Statistics of the new summary are those of the original
\* file plus what was appended: the messages, attachments, metadata records
\* and chunks of both sessions, the channels and schemas of the first
\* session and the ids assigned in the second; every Schema, Channel,
\* ChunkIndex, AttachmentIndex and MetadataIndex record of the original
\* summary is in the new one, and the messages of the original file are
\* read from the new file: by a NonSeekingReader before any appended one,
\* and by a SeekingReader
C22_AppendAccumulates ==
    (AppendFinished /\ IndexedOriginal) =>
        LET old == WrittenStatistics(cx.bytes)
            new == WrittenStatistics(w.stream)
            before == StreamMessages(cx.bytes)
            after == StreamMessages(w.stream)
            sought == SeekingReader_list(cx.bytes, DefaultQuery)
            found == SeekingReader_list(w.stream, DefaultQuery)
        IN /\ new[1] = old[1] + Appended_count("add_message")
           /\ new[2] = old[2] + Appended_count("register_schema")
           /\ new[3] = old[3] + Appended_count("register_channel")
           /\ new[4] = old[4] + Appended_count("add_attachment")
           /\ new[5] = old[5] + Appended_count("add_metadata")
           /\ new[6] = Len(SelectFrames(w.stream, CHUNK))
           /\ new[6] >= old[6]
           /\ \A op \in {SCHEMA, CHANNEL, CHUNK_INDEX, ATTACHMENT_INDEX, METADATA_INDEX} :
                 RecordsOf(cx.bytes, op) \subseteq RecordsOf(w.stream, op)
           /\ Len(after.out) >= Len(before.out)
           /\ SubSeq(after.out, 1, Len(before.out)) = before.out
           /\ \A i \in 1..Len(sought.out) :
                 \E j \in 1..Len(found.out) : found.out[j] = sought.out[i]

\* the tuple of a schema or channel, its id apart
Tuple(r) == [k \in DOMAIN r \ {"id", "op"} |-> r[k]]

\* the entries loaded in the table that have the tuple of the call c, and
\* those that have its name or topic with another tuple
Equal(table, c) == {i \in 1..Len(table) : Tuple(table[i]) = Tuple(c)}
Conflicting(table, c) ==
    {i \in 1..Len(table) :
        /\ Tuple(table[i]) # Tuple(c)
        /\ IF c.op = "register_schema" THEN table[i].name = c.name
           ELSE table[i].topic = c.topic}

\* C23: in a writer opened with open_append, register_schema or
\* register_channel with a tuple equal to a loaded entry adds no record
\* and leaves the writer as it is (it returns the entry's id); with a tuple
\* that conflicts with a loaded entry it fails and changes nothing; with a
\* new tuple it adds the entry with the next id after the loaded ones
C23_AppendRegister ==
    [][(/\ cx.phase = "appending"
        /\ Len(calls') = Len(calls) + 1
        /\ calls'[Len(calls')].op \in {"register_schema", "register_channel"}) =>
          LET c == calls'[Len(calls')]
              table == IF c.op = "register_schema" THEN w.schemas ELSE w.channels
              table_after == IF c.op = "register_schema" THEN w'.schemas ELSE w'.channels
          IN IF Equal(table, c) # {} \/ Conflicting(table, c) # {}
             THEN w' = w
             ELSE /\ Len(table_after) = Len(table) + 1
                  /\ table_after[Len(table_after)].id = Len(table) + 1
                  /\ Tuple(table_after[Len(table_after)]) = Tuple(c)
                  /\ SubSeq(table_after, 1, Len(table)) = table]_vars

\* the number of messages in the Chunk records of the file b that start
\* at a lower offset than p
RECURSIVE MessagesInChunks(_, _, _)
MessagesInChunks(b, fs, p) ==
    IF fs = <<>> THEN 0
    ELSE (IF Head(fs).offset < p
          THEN Len(SelectSeq(breakup_chunk(Chunk_read(b, Head(fs).offset + 9).rec, FALSE).out,
                             LAMBDA r : r.type = "Message"))
          ELSE 0)
         + MessagesInChunks(b, Tail(fs), p)

\* the positions in calls of the calls of the method op, in order
CallsOf(op) == SelectSeq([i \in 1..Len(calls) |-> i], LAMBDA i : calls[i].op = op)

\* the n-th record with the opcode of the file follows, in Chunk records
\* at lower offsets, all the messages added before the n-th call of op
AfterEarlierMessages(opcode, op) ==
    LET fs == SelectFrames(w.stream, opcode)
        at == CallsOf(op)
        chunks == SelectFrames(w.stream, CHUNK)
    IN /\ Len(fs) = Len(at)
       /\ \A n \in 1..Len(fs) :
             MessagesInChunks(w.stream, chunks, fs[n].offset)
               = Len(SelectSeq(SubSeq(calls, 1, at[n]), LAMBDA c : c.op = "add_message"))

\* C24: with chunking on, add_attachment and add_metadata first write out
\* the partially built chunk: in the finished file every message added
\* before the call lies in a Chunk record at a lower offset than the
\* Attachment or Metadata record
C24_ChunkFlushedBeforeAttachment ==
    (Finished /\ w.opts.use_chunking) =>
        /\ AfterEarlierMessages(ATTACHMENT, "add_attachment")
        /\ AfterEarlierMessages(METADATA, "add_metadata")

\* C25: with chunking on, when a register_schema, register_channel or
\* add_message call returns, the chunk builder holds at most chunk_size
\* bytes; and a chunk that the call has emitted is a Chunk record at the
\* end of what the stream held, with a ChunkIndex for that offset and, with
\* index_message, the offsets of its MessageIndex records
C25_BuilderWithinChunkSize ==
    [][(/\ w.opts.use_chunking
        /\ Len(calls') = Len(calls) + 1
        /\ calls'[Len(calls')].op \in {"register_schema", "register_channel", "add_message"}) =>
          /\ Len(w'.chunk_builder.record_writer) <= w.opts.chunk_size
          /\ Len(w'.chunk_indices) > Len(w.chunk_indices) =>
                LET chunk_index == w'.chunk_indices[Len(w'.chunk_indices)]
                IN /\ Len(w'.chunk_indices) = Len(w.chunk_indices) + 1
                   /\ w'.chunk_builder = ChunkBuilder_reset
                   /\ chunk_index.chunk_start_offset = Len(w.stream)
                   /\ w'.stream[Len(w.stream) + 1] = CHUNK
                   /\ Len(w'.stream) = Len(w.stream) + chunk_index.chunk_length
                                       + chunk_index.message_index_length
                   /\ w.opts.index_message => chunk_index.message_index_offsets # <<>>]_vars

\* the frames of the summary section of the finished file: the records
\* between the DataEnd and the Footer
SummaryFrames ==
    SelectSeq(Frames(w.stream, MAGIC_SIZE, <<>>),
              LAMBDA f : f.offset > DataEndFrame.offset /\ f.opcode # FOOTER)

\* C26: in the Footer that finish writes, whatever the summary options,
\* summary_start is 0 exactly when the summary section is empty and
\* otherwise the offset of its first record, and summary_offset_start is
\* 0 exactly when no SummaryOffset record is written and otherwise the
\* offset of the first SummaryOffset record
C26_FooterOffsets ==
    Finished =>
        LET footer == Footer_read(w.stream, FooterFrame.offset + 9).rec
            summary == SummaryFrames
            offsets == SelectSeq(summary, LAMBDA f : f.opcode = SUMMARY_OFFSET)
        IN /\ footer.summary_start
                = IF summary = <<>> THEN 0 ELSE summary[1].offset
           /\ footer.summary_offset_start
                = IF offsets = <<>> THEN 0 ELSE offsets[1].offset

\* the items that the queue of the reader holds
QueueItems ==
    [i \in 1..Len(rd.message_queue.q) |->
        IF rd.message_queue.kind = "LogTimeOrderQueue"
        THEN rd.message_queue.q[i].item ELSE rd.message_queue.q[i]]

\* the chunk indexes that the query of the reader selects
SelectedChunks ==
    chunks_matching_topics(rd.summary, rd.query.topics, rd.query.start_time,
                           rd.query.end_time).out

\* C27: while SeekingReader.iter_messages runs, in log-time order and in
\* insert order, the queue holds chunk indexes that are not yet expanded
\* and at most one pending message of each selected chunk: never more
\* items than the chunk indexes in it plus the number of selected chunks
C27_QueueBounded ==
    (rd.reader = "SeekingReader" /\ rd.phase = "iterating") =>
        LET items == QueueItems
            pending == SelectSeq(items, LAMBDA x : x.type # "ChunkIndex")
            unexpanded == SelectSeq(items, LAMBDA x : x.type = "ChunkIndex")
        IN /\ \A i \in 1..Len(SelectedChunks) :
                 Len(SelectSeq(pending,
                         LAMBDA x : x.v[2] = SelectedChunks[i].chunk_start_offset)) <= 1
           /\ Len(items) <= Len(unexpanded) + Len(SelectedChunks)

(***************************************************************************)
(* C28: the log time queue returns every pushed item once, in order        *)
(***************************************************************************)
\* the key of a queue item: the start time of a ChunkIndex (the end time in
\* reverse), the log_time of a message
Key(x, r) ==
    IF x.type = "ChunkIndex"
    THEN IF r THEN x.message_end_time ELSE x.message_start_time
    ELSE x.v[1][3].log_time

\* the chunk offset of the position of a queue item
Offset(x, r) ==
    IF x.type = "ChunkIndex"
    THEN IF r THEN x.chunk_start_offset + x.chunk_length ELSE x.chunk_start_offset
    ELSE x.v[2]

Flipped(a, b, r) == IF r THEN a > b ELSE a < b

\* x is strictly less than y in a queue of direction r
StrictlyLess(x, y, r) ==
    IF Key(x, r) # Key(y, r) THEN Flipped(Key(x, r), Key(y, r), r)
    ELSE IF Offset(x, r) # Offset(y, r) THEN Flipped(Offset(x, r), Offset(y, r), r)
    ELSE /\ x.type = "tuple"
         /\ y.type = "tuple"
         /\ Flipped(x.v[3], y.v[3], r)

\* how many times x occurs in the sequence s
Occurrences(s, x) == Cardinality({i \in 1..Len(s) : s[i] = x})

LogTimeQueue == rd.message_queue.kind = "LogTimeOrderQueue"

\* C28: on a queue made with log_time_order=True, no popped item is strictly
\* less than an item popped before it, the popped items and the items left in
\* the queue are together the pushed items, each as often as it was pushed, and
\* so the pops that empty the queue return every pushed item exactly once
C28_LogTimeQueueOrder ==
    LogTimeQueue =>
        /\ \A i \in 1..Len(rd.out) : \A j \in (i + 1)..Len(rd.out) :
              ~StrictlyLess(rd.out[j], rd.out[i], rd.message_queue.reverse)
        /\ \A x \in PushItems :
              Occurrences(calls, x) =
                  Occurrences(rd.out, x)
                  + Occurrences([k \in 1..Len(rd.message_queue.q) |->
                                    rd.message_queue.q[k].item], x)

\* a queue with a ChunkIndex and messages of equal key was pushed, out of order,
\* and popped empty
C28_Witness ==
    /\ LogTimeQueue
    /\ Len(calls) = MaxPushes
    /\ Len(rd.out) = MaxPushes
    /\ \E i \in 1..MaxPushes : \E j \in (i + 1)..MaxPushes :
          /\ StrictlyLess(calls[j], calls[i], rd.message_queue.reverse)
          /\ calls[i].type = "ChunkIndex"
          /\ calls[j].type = "tuple"
          /\ Key(calls[i], rd.message_queue.reverse) = Key(calls[j], rd.message_queue.reverse)
    /\ rd.message_queue.reverse

(***************************************************************************)
(* C29: without log_time_order the messages come in the order of the file  *)
(***************************************************************************)
\* the topic that register_channels gave the channel of an add_message call
TopicOf(c) == IF c.channel_id = 1 THEN StrA ELSE StrB

\* the add_message calls that pass the topic and the time filter of the query
CallsSelected ==
    SelectSeq(CallsInRange, LAMBDA c :
        rd.query.topics = Nothing \/ TopicOf(c) \in rd.query.topics[1])

\* the k-th add_message call wrote the message of sequence k - 1, so the
\* order of the file is the order of the sequence numbers
InFileOrder(out) ==
    \A i, j \in 1..Len(out) : i < j => out[i][3].sequence < out[j][3].sequence

\* the insert order queue of the reader
InsertOrder == rd.message_queue.kind = "InsertOrderQueue"

TurnDecoded == cx.phase = "read" /\ cx.err = "" /\ cx.record # None

\* where the record of the last turn ends by its header
DeclaredEnd == cx.record.start + 9 + cx.record.length

\* C30: when a turn of StreamReader.records has decoded a record, the stream
\* stands right after the declared length bytes of its payload (after the
\* magic too for a Footer), so that the next opcode is read at record start
\* + 9 + length, whatever the fields inside the payload say
C30_ExactFraming ==
    TurnDecoded =>
        cx.position = DeclaredEnd
                      + IF cx.record.opcode = FOOTER THEN MAGIC_SIZE ELSE 0
====
